---- MODULE Spec2Model ----
(***************************************************************************)
(* The speech intent resolver of Brand Bloom:                              *)
(*   src/enhanced_speech_processor.py  EnhancedSpeechProcessor             *)
(*   src/app.py                        /api/process-speech                 *)
(*                                                                         *)
(* Text.  A Python string is a sequence of items.  An item is a word (a    *)
(* maximal run of non-blank, non-punctuation characters, kept atomic), a   *)
(* single blank " ", or a punctuation mark ("." or ":").  "go to  email"   *)
(* is <<"go"," ","to"," "," ","email">>; the empty string is <<>>.  The    *)
(* regular expressions of the source are translated item by item: \s+ is   *)
(* one or more blanks, a literal word is one item, (.+?) is a shortest     *)
(* non-empty run of items, ([\w\s]+) a longest run of words and blanks.    *)
(*                                                                         *)
(* Numbers.  Confidences are integers in hundredths (0.8 is 80).           *)
(***************************************************************************)
EXTENDS Integers, Sequences, FiniteSets, TLC

(* ---------------- the state ---------------- *)

VARIABLES
    SPEECH_PROCESSOR_AVAILABLE, \* app.py: the import of the processor succeeded
    enhanced_speech_processor,  \* app.py: the global instance, or NoProcessor
    pc,                         \* "boot", "idle" (serving), "done" (answered)
    request,                    \* the request answered last
    response,                   \* the answer: HTTP status and body
    calls,                      \* the resolvers that request went through
    earlier,                    \* history: one earlier call of the pattern
                                \* resolver and what it returned, or NoCall
    handlers,                   \* each thread inside initialize_speech_system():
                                \* the line it is at and what it returned
    constructions               \* history: EnhancedSpeechProcessor() returned
                                \* this many instances

SP == " "
DOT == "."
COLON == ":"

(* ---------------- str helpers ---------------- *)

\* str.lower() on the words of the model's vocabulary
Lower(w) ==
    CASE w = "Um"     -> "um"
      [] w = "Go"     -> "go"
      [] w = "Modern" -> "modern"
      [] w = "Joe"    -> "joe"
      [] w = "Tony's" -> "tony's"
      [] OTHER        -> w

LowerStr(s) == [i \in 1..Len(s) |-> Lower(s[i])]

\* `kw in w` for two words: the character-level substring test, tabulated on
\* the vocabulary (a word contains itself)
WordContains(w, kw) ==
    \/ w = kw
    \/ <<w, kw>> \in { <<"websites", "website">>, <<"cafeteria", "cafe">>,
                       <<"emails", "email">>, <<"eco-modern", "eco">>,
                       <<"eco-modern", "modern">>,
                       <<"customers", "customer">>, <<"sales", "sale">>,
                       <<"website", "site">>, <<"websites", "site">>,
                       <<"email", "mail">>, <<"emails", "mail">> }

\* `kw in s` for strings: kw (a sequence of items) occurs in s; a one-word
\* kw may also occur inside a word of s
StrContains(s, kw) ==
    /\ Len(kw) >= 1
    /\ \E i \in 1..Len(s) :
          /\ i + Len(kw) - 1 <= Len(s)
          /\ IF Len(kw) = 1
                THEN WordContains(s[i], kw[1])
                ELSE \A k \in 1..Len(kw) : s[i + k - 1] = kw[k]

\* str.strip(): blanks off both ends
RECURSIVE LStrip(_)
LStrip(s) == IF s # <<>> /\ Head(s) = SP THEN LStrip(Tail(s)) ELSE s

RECURSIVE RStrip(_)
RStrip(s) ==
    IF s # <<>> /\ s[Len(s)] = SP THEN RStrip(SubSeq(s, 1, Len(s) - 1)) ELSE s

Strip(s) == RStrip(LStrip(s))

\* re.sub(r'\s+', ' ', s): every run of blanks becomes one blank
RECURSIVE CollapseWs(_)
CollapseWs(s) ==
    IF s = <<>> THEN <<>>
    ELSE IF Len(s) >= 2 /\ s[1] = SP /\ s[2] = SP THEN CollapseWs(Tail(s))
    ELSE <<Head(s)>> \o CollapseWs(Tail(s))

\* re.sub(r'\b(?:um|uh|er|ah)\b', '', s, flags=re.IGNORECASE): the words are
\* deleted, the blanks around them stay
Disfluencies == {"um", "uh", "er", "ah"}

RECURSIVE RemoveDisfluencies(_)
RemoveDisfluencies(s) ==
    IF s = <<>> THEN <<>>
    ELSE IF Lower(Head(s)) \in Disfluencies THEN RemoveDisfluencies(Tail(s))
    ELSE <<Head(s)>> \o RemoveDisfluencies(Tail(s))

\* A transcript handed to the processor is None, a value that is no str, or
\* a str.
NoneValue == [kind |-> "none"]
NonStr == [kind |-> "nonstr"]
Str(s) == [kind |-> "str", s |-> s]

\* Python truthiness of a transcript value (a non-str such as 123 is truthy)
Truthy(v) == \/ v.kind = "nonstr"
             \/ v.kind = "str" /\ v.s # <<>>

\* _clean_transcript on a str or None (on a non-str, str.strip raises)
_clean_transcript(v) ==
    IF ~Truthy(v) THEN <<>>
    ELSE RemoveDisfluencies(CollapseWs(Strip(v.s)))

(* ---------------- page contexts ---------------- *)

K(w) == <<w>>
K2(a, b) == <<a, SP, b>>

TextField == [type |-> "text", options |-> <<>>, keywords |-> <<>>]
TextArea == [type |-> "textarea", options |-> <<>>, keywords |-> <<>>]

\* A select field: its options in declared order and its keywords dict as the
\* sequence of (option, trigger words) pairs in the dict's insertion order.
Select(options, keywords) ==
    [type |-> "select", options |-> options, keywords |-> keywords]

\* self.page_contexts[page]['fields'] for the pages that declare fields
page_fields ==
    [ website |->
        [ websiteType |-> Select(
            <<"business", "portfolio", "ecommerce", "blog", "restaurant", "services">>,
            << <<"business", <<K("business"), K("company"), K("corporate"), K("office")>> >>,
               <<"restaurant", <<K("restaurant"), K("cafe"), K("food"), K("dining"), K("kitchen")>> >>,
               <<"portfolio", <<K("portfolio"), K("personal"), K("showcase"), K("work")>> >>,
               <<"ecommerce", <<K("store"), K("shop"), K("ecommerce"), K("selling"), K("products")>> >>,
               <<"services", <<K("services"), K("consulting"), K("professional"), K("agency")>> >>,
               <<"blog", <<K("blog"), K("writing"), K("articles"), K("content")>> >> >>),
          businessName |-> TextField,
          businessDescription |-> TextArea,
          keyServices |-> TextField,
          targetAudience |-> TextField,
          colorScheme |-> Select(
            <<"professional", "modern", "warm", "nature", "creative">>,
            << <<"professional", <<K("professional"), K("business"), K("corporate"), K("formal")>> >>,
               <<"modern", <<K("modern"), K("contemporary"), K("sleek"), K("minimalist")>> >>,
               <<"warm", <<K("warm"), K("friendly"), K("welcoming"), K("cozy")>> >>,
               <<"nature", <<K("nature"), K("green"), K("organic"), K("natural"), K("eco")>> >>,
               <<"creative", <<K("creative"), K("artistic"), K("colorful"), K("vibrant")>> >> >>) ],
      email |->
        [ emailType |-> Select(
            <<"marketing", "customer_service", "follow_up", "thank_you", "announcement", "invitation">>,
            << <<"marketing", <<K("marketing"), K("promotional"), K("advertisement"), K("campaign")>> >>,
               <<"customer_service", <<K("support"), K("service"), K("help"), K("assistance"), K("customer")>> >>,
               <<"thank_you", <<K("thank"), K("thanks"), K("appreciation"), K("grateful")>> >>,
               <<"follow_up", <<K2("follow", "up"), K("followup"), K2("check", "in"), K("update")>> >>,
               <<"announcement", <<K("announcement"), K("news"), K("update"), K("information")>> >>,
               <<"invitation", <<K("invitation"), K("invite"), K("event"), K("meeting")>> >> >>),
          recipientType |-> Select(
            <<"customer", "prospect", "partner">>,
            << <<"customer", <<K("customer"), K("client"), K("existing"), K("current")>> >>,
               <<"prospect", <<K("prospect"), K("potential"), K("new"), K("lead")>> >>,
               <<"partner", <<K("partner"), K("vendor"), K("supplier"), K("collaborator")>> >> >>),
          emailTone |-> Select(
            <<"professional", "friendly", "casual", "formal", "urgent">>,
            << <<"professional", <<K("professional"), K("business")>> >>,
               <<"friendly", <<K("friendly"), K("warm"), K("personal")>> >>,
               <<"casual", <<K("casual"), K("informal"), K("relaxed")>> >>,
               <<"formal", <<K("formal"), K("official")>> >>,
               <<"urgent", <<K("urgent"), K("important"), K("immediate")>> >> >>),
          emailPurpose |-> TextField,
          emailContext |-> TextArea,
          senderName |-> TextField ],
      feedback |->
        [ feedbackText |-> TextArea ],
      poster |->
        [ posterType |-> Select(
            <<"promotional", "event", "product", "service", "announcement">>,
            << <<"promotional", <<K("sale"), K("promotion"), K("discount"), K("offer"), K("deal")>> >>,
               <<"event", <<K("event"), K("opening"), K("launch"), K("workshop"), K("conference")>> >>,
               <<"product", <<K("product"), K2("new", "product"), K("launch")>> >>,
               <<"service", <<K("service"), K("services")>> >>,
               <<"announcement", <<K("announcement"), K("news"), K("update")>> >> >>),
          posterTitle |-> TextField,
          posterSubtitle |-> TextField,
          posterDescription |-> TextArea,
          businessName |-> TextField,
          colorScheme |-> Select(
            <<"modern", "vibrant", "professional", "nature", "creative", "minimalist">>, <<>>),
          posterSize |-> Select(<<"medium", "large", "a4", "social_media">>, <<>>) ] ]

\* self.page_contexts[page]['auto_submit']
page_auto_submit ==
    [ website |-> FALSE, email |-> FALSE, feedback |-> TRUE, poster |-> FALSE,
      sales |-> FALSE ]

\* A lookup that takes the schema of the website page for a page without one
ContextFields_WebsiteForUnknown(page) ==
    IF page \in DOMAIN page_fields THEN page_fields[page] ELSE page_fields.website

\* page_context.get('fields', {}) with page_context = page_contexts.get(page, {})
ContextFields(page) ==
    IF page \in DOMAIN page_fields THEN page_fields[page] ELSE <<>>

\* A default that ignores the page's declared auto_submit
ContextAutoSubmit_Never(page) == FALSE

\* page_context.get('auto_submit', False)
ContextAutoSubmit(page) ==
    IF page \in DOMAIN page_auto_submit THEN page_auto_submit[page] ELSE FALSE

(* ---------------- dict helpers ---------------- *)

\* d[k] = v
Put(d, k, v) == [x \in DOMAIN d \cup {k} |-> IF x = k THEN v ELSE d[x]]

\* d.get(k, default)
Get(d, k, default) == IF k \in DOMAIN d THEN d[k] ELSE default

(* ---------------- instruction validator ---------------- *)

\* A JSON value of a field that is no string (a number): str methods raise on it
JsonNumber == <<"<number>">>

IsString(value) == value # JsonNumber

\* The least index at which a sequence of booleans holds TRUE, 0 when there is
\* none: the element a `for` loop with an early return stops at
FirstIndex(hits) ==
    IF \A i \in 1..Len(hits) : ~hits[i] THEN 0
    ELSE CHOOSE i \in 1..Len(hits) : hits[i] /\ \A j \in 1..(i - 1) : ~hits[j]

InSeq(x, seq) == \E i \in 1..Len(seq) : seq[i] = x

\* A closest-option search without its last resort: a value that matches
\* neither an option nor a keyword is returned as it is
_find_closest_option_Raw(value, options, keywords) ==
    LET value_lower == LowerStr(value)
        d == FirstIndex([i \in 1..Len(options) |-> K(Lower(options[i])) = value_lower])
        k == FirstIndex([i \in 1..Len(keywords) |->
                            /\ InSeq(keywords[i][1], options)
                            /\ \E n \in 1..Len(keywords[i][2]) :
                                  StrContains(value_lower, keywords[i][2][n])])
    IN  IF d # 0 THEN K(options[d])
        ELSE IF k # 0 THEN K(keywords[k][1])
        ELSE value

\* A closest-option search that looks for a trigger word option by option in
\* the order of the options list, not in the order of the keywords dict
_find_closest_option_DeclaredOrder(value, options, keywords) ==
    LET value_lower == LowerStr(value)
        d == FirstIndex([i \in 1..Len(options) |-> K(Lower(options[i])) = value_lower])
        k == FirstIndex([i \in 1..Len(options) |->
                            \E m \in 1..Len(keywords) :
                               /\ keywords[m][1] = options[i]
                               /\ \E n \in 1..Len(keywords[m][2]) :
                                     StrContains(value_lower, keywords[m][2][n])])
    IN  IF d # 0 THEN K(options[d])
        ELSE IF k # 0 THEN K(options[k])
        ELSE IF options # <<>> THEN K(options[1]) ELSE value

\* _find_closest_option(value, options, keywords) for a str value
_find_closest_option(value, options, keywords) ==
    LET value_lower == LowerStr(value)
        d == FirstIndex([i \in 1..Len(options) |-> K(Lower(options[i])) = value_lower])
        k == FirstIndex([i \in 1..Len(keywords) |->
                            /\ InSeq(keywords[i][1], options)
                            /\ \E n \in 1..Len(keywords[i][2]) :
                                  StrContains(value_lower, keywords[i][2][n])])
    IN  IF d # 0 THEN K(options[d])
        ELSE IF k # 0 THEN K(keywords[k][1])
        ELSE IF options # <<>> THEN K(options[1]) ELSE value

\* The value _validate_instructions stores for field_id (lines 463-470)
ValidatedValue(field_config, value) ==
    IF field_config.type = "select" /\ ~InSeq(value, [i \in 1..Len(field_config.options) |-> K(field_config.options[i])])
       THEN _find_closest_option(value, field_config.options, field_config.keywords)
       ELSE value

\* value.lower() raises for a select field whose value is no str
ValidationRaises(instructions, page) ==
    /\ Get(instructions, "action", "fill_form") = "fill_form"
    /\ "fields" \in DOMAIN instructions
    /\ \E field_id \in DOMAIN instructions.fields \cap DOMAIN ContextFields(page) :
          /\ ContextFields(page)[field_id].type = "select"
          /\ ~IsString(instructions.fields[field_id])

\* A validator whose default confidence is 0.8, the default of the caller's
\* instructions.get('confidence', 0.8), in place of 0.7
_validate_instructions_Default80(instructions, page) ==
    LET i1 == IF "action" \in DOMAIN instructions THEN instructions
              ELSE Put(instructions, "action", "fill_form")
        i2 == IF "confidence" \in DOMAIN i1 THEN i1 ELSE Put(i1, "confidence", 80)
        ctx == ContextFields(page)
        valid_fields ==
            [field_id \in DOMAIN i2.fields \cap DOMAIN ctx |->
                ValidatedValue(ctx[field_id], i2.fields[field_id])]
        i3 == IF i2.action = "fill_form" /\ "fields" \in DOMAIN i2
                 THEN Put(i2, "fields", valid_fields) ELSE i2
    IN  IF "tool_execution" \in DOMAIN i3 /\ "auto_submit" \notin DOMAIN i3.tool_execution
           THEN Put(i3, "tool_execution",
                    Put(i3.tool_execution, "auto_submit", ContextAutoSubmit(page)))
           ELSE i3

\* _validate_instructions(instructions, page) when it does not raise
_validate_instructions(instructions, page) ==
    LET i1 == IF "action" \in DOMAIN instructions THEN instructions
              ELSE Put(instructions, "action", "fill_form")
        i2 == IF "confidence" \in DOMAIN i1 THEN i1 ELSE Put(i1, "confidence", 70)
        ctx == ContextFields(page)
        valid_fields ==
            [field_id \in DOMAIN i2.fields \cap DOMAIN ctx |->
                ValidatedValue(ctx[field_id], i2.fields[field_id])]
        i3 == IF i2.action = "fill_form" /\ "fields" \in DOMAIN i2
                 THEN Put(i2, "fields", valid_fields) ELSE i2
    IN  IF "tool_execution" \in DOMAIN i3 /\ "auto_submit" \notin DOMAIN i3.tool_execution
           THEN Put(i3, "tool_execution",
                    Put(i3.tool_execution, "auto_submit", ContextAutoSubmit(page)))
           ELSE i3

(* ---------------- regular expressions, item by item ---------------- *)

Max(S) == CHOOSE x \in S : \A y \in S : y <= x
Min(S) == CHOOSE x \in S : \A y \in S : x <= y

\* The item at position i, lowered (the patterns are matched with
\* re.IGNORECASE); a position outside the string holds no item
At(s, i) == IF i \in 1..Len(s) THEN Lower(s[i]) ELSE "<end>"

IsBlank(s, i) == i \in 1..Len(s) /\ s[i] = SP

\* The end of the run of blanks that starts at i
BlankRunEnd(s, i) ==
    CHOOSE j \in i..(Len(s) + 1) :
        ~IsBlank(s, j) /\ \A k \in i..(j - 1) : IsBlank(s, k)

\* \s+ at i followed by a literal: the position of the literal, 0 if \s+ fails
NextWord(s, i) ==
    IF IsBlank(s, i) /\ BlankRunEnd(s, i) <= Len(s) THEN BlankRunEnd(s, i) ELSE 0

\* \s+ at i followed by a group that takes any item: the positions the group
\* may start at (the regex engine tries the largest first)
CapStarts(s, i) ==
    {p \in (i + 1)..Len(s) : \A k \in i..(p - 1) : IsBlank(s, k)}

\* The positions a group may end at (exclusive)
Positions(s) == 1..(Len(s) + 1)

\* (.+?) at p followed by the rest of the pattern, which matches at the
\* positions ends: the least end after p, or 0
LazyEnd(p, ends) ==
    IF p = 0 \/ \A e \in ends : e <= p THEN 0
    ELSE Min({e \in ends : e > p})

\* \s+(.+?) at i followed by the rest: <<start, end>> of the group, <<0, 0>>
\* when there is no match
CapAfterWs(s, i, ends) ==
    IF \A p \in CapStarts(s, i) : LazyEnd(p, ends) = 0 THEN <<0, 0>>
    ELSE <<Max({p \in CapStarts(s, i) : LazyEnd(p, ends) # 0}),
           LazyEnd(Max({p \in CapStarts(s, i) : LazyEnd(p, ends) # 0}), ends)>>

\* \s+(.+) at i, the group running to the end of the string: its start, or 0
RestAfterWs(s, i) ==
    IF CapStarts(s, i) = {} THEN 0 ELSE Max(CapStarts(s, i))

\* (?:\.|$) at e
Term(s, e) == e = Len(s) + 1 \/ (e \in 1..Len(s) /\ s[e] = DOT)

\* The text of a group
Group(s, from, to) == SubSeq(s, from, to - 1)

\* re.search: the match at the least start position, `at` holding the match
\* of the pattern at each position
NoMatch == [matched |-> FALSE]

Search(at) ==
    IF \A i \in DOMAIN at : ~at[i].matched THEN NoMatch
    ELSE at[Min({i \in DOMAIN at : at[i].matched})]

\* The end (exclusive) of one of the phrases at i, 0 if none is there; a
\* phrase is a sequence of words separated by one blank each
PhraseEnd(s, i, phrases) ==
    LET Fits(ph) == \A k \in 1..Len(ph) : At(s, i + k - 1) = ph[k]
    IN  IF \E ph \in phrases : Fits(ph)
           THEN i + Len(CHOOSE ph \in phrases : Fits(ph)) ELSE 0

(* ---------------- navigation tier ---------------- *)

url_mapping ==
    [ website |-> "/tools/website", email |-> "/tools/email",
      feedback |-> "/tools/feedback", poster |-> "/tools/poster",
      sales |-> "/tools/sales", dashboard |-> "/dashboard",
      profile |-> "/profile" ]

\* _get_navigation_url(tool_name): tool_name.lower().strip() looked up, with a
\* default
_get_navigation_url(tool_name) ==
    LET name == Strip(LowerStr(tool_name))
    IN  IF Len(name) = 1 /\ name[1] \in DOMAIN url_mapping
           THEN url_mapping[name[1]] ELSE "/dashboard"

\* A word that starts with the tool name n (the name is matched as a prefix)
StartsWith(w, n) ==
    \/ w = n
    \/ <<w, n>> \in { <<"websites", "website">>, <<"emails", "email">> }

NavVerbs ==
    { <<"go", SP, "to">>, <<"open">>, <<"show">>, <<"navigate", SP, "to">>,
      <<"switch", SP, "to">> }

\* (?:go to|open|show|navigate to|switch to)\s+(website|email|...|profile)
NavPattern1At(s, i) ==
    LET e == PhraseEnd(s, i, NavVerbs)
        j == IF e = 0 THEN 0 ELSE NextWord(s, e)
        names == {n \in DOMAIN url_mapping : StartsWith(At(s, j), n)}
    IN  IF e # 0 /\ j # 0 /\ names # {}
           THEN [matched |-> TRUE, g1 |-> K(CHOOSE n \in names : TRUE)]
           ELSE NoMatch

\* Words made of \w characters only
IsWordItem(w) == w \notin {SP, DOT, COLON, "joe's", "purple-ish", "eco-modern", "e-mail"}

\* (?:show me|open)\s+the\s+([\w\s]+)\s+(?:tool|page): the group is greedy
NavPattern2At(s, i) ==
    LET e == PhraseEnd(s, i, { <<"show", SP, "me">>, <<"open">> })
        t == IF e = 0 THEN 0 ELSE NextWord(s, e)
        Ends(p) == {g \in (p + 1)..Len(s) :
                      /\ \A k \in p..(g - 1) : s[k] = SP \/ IsWordItem(s[k])
                      /\ At(s, NextWord(s, g)) \in {"tool", "page"}}
        starts == {p \in CapStarts(s, t + 1) : Ends(p) # {}}
    IN  IF e # 0 /\ t # 0 /\ At(s, t) = "the" /\ starts # {}
           THEN [matched |-> TRUE,
                 g1 |-> Group(s, Max(starts), Max(Ends(Max(starts))))]
           ELSE NoMatch

\* _match_navigation_patterns(transcript): the instruction, or None
None == [none |-> TRUE]

\* The navigate instruction for the tool name a pattern captured
NavigationInstruction(m) ==
    IF m.matched
       THEN [action |-> "navigate",
             navigation |-> _get_navigation_url(m.g1),
             message |-> <<"Navigating to ", m.g1, " page...">>]
       ELSE None

\* The first of two matches that matched
FirstMatch(m1, m2) == IF m1.matched THEN m1 ELSE m2

_match_navigation_patterns(transcript) ==
    NavigationInstruction(
        FirstMatch(Search([i \in 1..Len(transcript) |-> NavPattern1At(transcript, i)]),
                   Search([i \in 1..Len(transcript) |-> NavPattern2At(transcript, i)])))

(* ---------------- page-specific tier: the patterns ---------------- *)

Absent == <<0, 0>>

\* A match with its groups; a group that did not take part is has2 = FALSE
Match1(g1) == [matched |-> TRUE, g1 |-> g1, has2 |-> FALSE, g2 |-> <<>>]
Match2(g1, g2) == [matched |-> TRUE, g1 |-> g1, has2 |-> TRUE, g2 |-> g2]

\* \s+ and the optional article at i, then a literal: the literal's position
AfterArticle(s, i, articles) ==
    LET j == NextWord(s, i)
    IN  IF At(s, j) \in articles THEN NextWord(s, j + 1) ELSE j

\* verbs \s+ (?:a\s+)? noun \s+ for \s+ (.+?) (?:\s+ (?:names) \s+ (.+?))? (?:\.|$)
\* website_creation[0] and poster_creation[0]
ForCalledAt(s, i, verbs, noun, names) ==
    LET w == IF At(s, i) \in verbs THEN AfterArticle(s, i + 1, {"a"}) ELSE 0
        f == IF At(s, w) = noun THEN NextWord(s, w + 1) ELSE 0
        End == {e \in Positions(s) : Term(s, e)}
        Named(e) == IF At(s, NextWord(s, e)) \in names
                       THEN CapAfterWs(s, NextWord(s, e) + 1, End) ELSE Absent
        Rest == {e \in Positions(s) : Named(e) # Absent \/ Term(s, e)}
        c == IF At(s, f) = "for" THEN CapAfterWs(s, f + 1, Rest) ELSE Absent
    IN  IF c = Absent THEN NoMatch
        ELSE IF Named(c[2]) # Absent
                THEN Match2(Group(s, c[1], c[2]),
                            Group(s, Named(c[2])[1], Named(c[2])[2]))
        ELSE Match1(Group(s, c[1], c[2]))

\* heads \s+ (?:a\s+)? (.+?) \s+ noun \s+ (?:preps) \s+ (.+?) (?:\.|$)
\* website_creation[1] and email_creation[0]
TypeForAt(s, i, heads, noun, preps) ==
    LET h == PhraseEnd(s, i, heads)
        j == IF h = 0 THEN 0 ELSE NextWord(s, h)
        End == {e \in Positions(s) : Term(s, e)}
        Second(e) ==
            LET w == NextWord(s, e)
                f == IF At(s, w) = noun THEN NextWord(s, w + 1) ELSE 0
            IN  IF At(s, f) \in preps THEN CapAfterWs(s, f + 1, End) ELSE Absent
        Rest == {e \in Positions(s) : Second(e) # Absent}
        withArticle == IF At(s, j) = "a" THEN CapAfterWs(s, j + 1, Rest) ELSE Absent
        c == IF withArticle # Absent THEN withArticle
             ELSE IF h # 0 THEN CapAfterWs(s, h, Rest) ELSE Absent
    IN  IF c = Absent THEN NoMatch
        ELSE Match2(Group(s, c[1], c[2]),
                    Group(s, Second(c[2])[1], Second(c[2])[2]))

\* (?:send|write)\s+(?:an?\s+)?email\s+(?:about|regarding)\s+(.+?)(?:\.|$)
EmailPurposeAt(s, i) ==
    LET w == IF At(s, i) \in {"send", "write"}
                THEN AfterArticle(s, i + 1, {"a", "an"}) ELSE 0
        f == IF At(s, w) = "email" THEN NextWord(s, w + 1) ELSE 0
        End == {e \in Positions(s) : Term(s, e)}
        c == IF At(s, f) \in {"about", "regarding"}
                THEN CapAfterWs(s, f + 1, End) ELSE Absent
    IN  IF c = Absent THEN NoMatch ELSE Match1(Group(s, c[1], c[2]))

\* [:\s]+(.+) at i: the start of the group, which runs to the end; 0 if none
RestAfterColon(s, i) ==
    LET starts == {p \in (i + 1)..Len(s) :
                      \A k \in i..(p - 1) : s[k] \in {COLON, SP}}
    IN  IF starts = {} THEN 0 ELSE Max(starts)

\* (?:analyze|check|review)\s+(?:this\s+)?feedback[:\s]+(.+)
FeedbackAt(s, i) ==
    LET w == IF At(s, i) \in {"analyze", "check", "review"}
                THEN AfterArticle(s, i + 1, {"this"}) ELSE 0
        p == IF At(s, w) = "feedback" THEN RestAfterColon(s, w + 1) ELSE 0
    IN  IF p = 0 THEN NoMatch ELSE Match1(Group(s, p, Len(s) + 1))

\* (?:sentiment|analysis|analyze)[:\s]+(.+)
SentimentAt(s, i) ==
    LET p == IF At(s, i) \in {"sentiment", "analysis", "analyze"}
                THEN RestAfterColon(s, i + 1) ELSE 0
    IN  IF p = 0 THEN NoMatch ELSE Match1(Group(s, p, Len(s) + 1))

\* (?:make|create)\s+(?:a\s+)?(.+?)\s+poster(?:\s+for\s+(.+?))?(?:\.|$)
PosterTypeAt(s, i) ==
    LET h == IF At(s, i) \in {"make", "create"} THEN i + 1 ELSE 0
        j == IF h = 0 THEN 0 ELSE NextWord(s, h)
        End == {e \in Positions(s) : Term(s, e)}
        For(x) == IF At(s, NextWord(s, x)) = "for"
                     THEN CapAfterWs(s, NextWord(s, x) + 1, End) ELSE Absent
        Rest == {e \in Positions(s) :
                    /\ At(s, NextWord(s, e)) = "poster"
                    /\ \/ For(NextWord(s, e) + 1) # Absent
                       \/ Term(s, NextWord(s, e) + 1)}
        withArticle == IF At(s, j) = "a" THEN CapAfterWs(s, j + 1, Rest) ELSE Absent
        c == IF withArticle # Absent THEN withArticle
             ELSE IF h # 0 THEN CapAfterWs(s, h, Rest) ELSE Absent
        g == For(NextWord(s, c[2]) + 1)
    IN  IF c = Absent THEN NoMatch
        ELSE IF g # Absent
                THEN Match2(Group(s, c[1], c[2]), Group(s, g[1], g[2]))
        ELSE Match1(Group(s, c[1], c[2]))

(* ---------------- page-specific tier: the handlers ---------------- *)

EmptyDict == <<>>

\* d[k] = v when cond holds
PutIf(cond, d, k, v) == IF cond THEN Put(d, k, v) ELSE d

\* any(keyword in text for keyword in keywords)
AnyIn(text, keywords) == \E kw \in keywords : StrContains(text, K(kw))

\* match.group(2).strip() if match.lastindex >= 2 and match.group(2) else None,
\* with None as the empty string (both are falsy where the value is used)
SecondGroup(m) == IF m.has2 /\ m.g2 # <<>> THEN Strip(m.g2) ELSE <<>>

\* type_mapping of _extract_website_info, in the order of the dict
type_mapping ==
    << <<"restaurant", {"restaurant", "cafe", "food", "dining"}>>,
       <<"business", {"business", "company", "corporate"}>>,
       <<"portfolio", {"portfolio", "personal"}>>,
       <<"ecommerce", {"shop", "store", "ecommerce"}>>,
       <<"services", {"service", "consulting"}>> >>

_extract_website_info(m) ==
    LET business_desc == Strip(m.g1)
        business_name == SecondGroup(m)
        desc_lower == LowerStr(business_desc)
        t == FirstIndex([i \in 1..Len(type_mapping) |->
                            AnyIn(desc_lower, type_mapping[i][2])])
        f1 == PutIf(business_name # <<>>, EmptyDict, "businessName", business_name)
        f2 == IF t # 0 THEN Put(f1, "websiteType", K(type_mapping[t][1])) ELSE f1
    IN  Put(f2, "businessDescription", business_desc)

_extract_website_type_info(m) ==
    LET website_type == LowerStr(Strip(m.g1))
        business_info == Strip(m.g2)
        f1 == Put(EmptyDict, "businessDescription", business_info)
    IN  IF AnyIn(website_type, {"restaurant", "food"})
           THEN Put(f1, "websiteType", K("restaurant"))
        ELSE IF AnyIn(website_type, {"business", "corporate"})
           THEN Put(f1, "websiteType", K("business"))
        ELSE IF AnyIn(website_type, {"portfolio", "personal"})
           THEN Put(f1, "websiteType", K("portfolio"))
        ELSE f1

_extract_email_info(m) ==
    LET email_type == LowerStr(Strip(m.g1))
        recipient_info == LowerStr(Strip(m.g2))
        f1 == IF AnyIn(email_type, {"marketing", "promotional"})
                 THEN Put(EmptyDict, "emailType", K("marketing"))
              ELSE IF AnyIn(email_type, {"support", "service"})
                 THEN Put(EmptyDict, "emailType", K("customer_service"))
              ELSE IF AnyIn(email_type, {"thank"})
                 THEN Put(EmptyDict, "emailType", K("thank_you"))
              ELSE EmptyDict
        f2 == IF AnyIn(recipient_info, {"customer"})
                 THEN Put(f1, "recipientType", K("customer"))
              ELSE IF AnyIn(recipient_info, {"prospect", "potential"})
                 THEN Put(f1, "recipientType", K("prospect"))
              ELSE f1
    IN  IF Get(f2, "emailType", <<>>) = K("marketing")
           THEN Put(f2, "emailTone", K("friendly"))
           ELSE Put(f2, "emailTone", K("professional"))

_extract_email_purpose(m) ==
    [emailPurpose |-> Strip(m.g1), emailType |-> K("announcement"),
     emailTone |-> K("professional")]

_extract_poster_info(m) ==
    LET purpose == Strip(m.g1)
        title == SecondGroup(m)
        purpose_lower == LowerStr(purpose)
        f1 == Put(EmptyDict, "posterDescription", purpose)
        f2 == PutIf(title # <<>>, f1, "posterTitle", title)
    IN  IF AnyIn(purpose_lower, {"sale", "promotion"})
           THEN Put(f2, "posterType", K("promotional"))
        ELSE IF AnyIn(purpose_lower, {"event", "opening"})
           THEN Put(f2, "posterType", K("event"))
        ELSE IF AnyIn(purpose_lower, {"product"})
           THEN Put(f2, "posterType", K("product"))
        ELSE f2

_extract_poster_type_info(m) ==
    LET poster_type == LowerStr(Strip(m.g1))
        business_info == SecondGroup(m)
        f1 == IF AnyIn(poster_type, {"promotional", "sale"})
                 THEN [posterType |-> K("promotional"),
                       posterTitle |-> <<"Special", SP, "Promotion">>]
              ELSE IF AnyIn(poster_type, {"event"})
                 THEN [posterType |-> K("event"),
                       posterTitle |-> <<"Special", SP, "Event">>]
              ELSE EmptyDict
    IN  PutIf(business_info # <<>>, f1, "businessName", business_info)

(* ---------------- page-specific tier ---------------- *)

\* `kw in transcript_lower` for a one-word kw
Mentions(transcript_lower, kw) == StrContains(transcript_lower, K(kw))

\* The fill_form instruction the page-specific tier returns for a tool
PageInstruction(tool, fields, auto_submit, message) ==
    [action |-> "fill_form", fields |-> fields,
     tool_execution |-> [tool |-> tool, auto_submit |-> auto_submit],
     message |-> message]

\* f"Website form configured for {fields.get('businessName', 'your business')}."
WebsiteInstruction(fields) ==
    PageInstruction("website", fields, FALSE,
        <<"Website form configured for ",
          Get(fields, "businessName", <<"your", SP, "business">>), ".">>)

EmailInstruction(fields) ==
    PageInstruction("email", fields, FALSE,
        <<"Email form configured from your speech.">>)

\* A feedback instruction that is not submitted automatically
FeedbackInstruction_NoSubmit(m) ==
    PageInstruction("feedback", [feedbackText |-> Strip(m.g1)], FALSE,
        <<"Analyzing feedback from your speech...">>)

FeedbackInstruction(m) ==
    PageInstruction("feedback", [feedbackText |-> Strip(m.g1)], TRUE,
        <<"Analyzing feedback from your speech...">>)

\* f"Poster configured for {fields.get('posterTitle', 'your event')}."
PosterInstruction(fields) ==
    PageInstruction("poster", fields, FALSE,
        <<"Poster configured for ",
          Get(fields, "posterTitle", <<"your", SP, "event">>), ".">>)

\* The two patterns of a domain in order: the first that matches decides
WebsiteResult(m1, m2) ==
    IF m1.matched THEN WebsiteInstruction(_extract_website_info(m1))
    ELSE IF m2.matched THEN WebsiteInstruction(_extract_website_type_info(m2))
    ELSE None

EmailResult(m1, m2) ==
    IF m1.matched THEN EmailInstruction(_extract_email_info(m1))
    ELSE IF m2.matched THEN EmailInstruction(_extract_email_purpose(m2))
    ELSE None

FeedbackResult(m1, m2) ==
    IF m1.matched THEN FeedbackInstruction(m1)
    ELSE IF m2.matched THEN FeedbackInstruction(m2)
    ELSE None

PosterResult(m1, m2) ==
    IF m1.matched THEN PosterInstruction(_extract_poster_info(m1))
    ELSE IF m2.matched THEN PosterInstruction(_extract_poster_type_info(m2))
    ELSE None

\* The website branch of _match_page_patterns (lines 561-572)
WebsiteDomain(transcript, transcript_lower, page) ==
    IF page = "website" \/ Mentions(transcript_lower, "website")
       THEN WebsiteResult(
              Search([i \in 1..Len(transcript) |->
                  ForCalledAt(transcript, i, {"create", "make", "build", "generate"},
                              "website", {"called", "named"})]),
              Search([i \in 1..Len(transcript) |->
                  TypeForAt(transcript, i, { <<"i", SP, "want">>, <<"i", SP, "need">> },
                            "website", {"for"})]))
       ELSE None

\* The email branch (lines 574-585)
EmailDomain(transcript, transcript_lower, page) ==
    IF page = "email" \/ Mentions(transcript_lower, "email")
       THEN EmailResult(
              Search([i \in 1..Len(transcript) |->
                  TypeForAt(transcript, i,
                            { <<"create">>, <<"generate">>, <<"draft">>, <<"write">> },
                            "email", {"for", "to"})]),
              Search([i \in 1..Len(transcript) |-> EmailPurposeAt(transcript, i)]))
       ELSE None

\* The feedback branch with its patterns tried whatever the page and the words
FeedbackDomain_Ungated(transcript, transcript_lower, page) ==
    FeedbackResult(
        Search([i \in 1..Len(transcript) |-> FeedbackAt(transcript, i)]),
        Search([i \in 1..Len(transcript) |-> SentimentAt(transcript, i)]))

\* The feedback branch (lines 587-598)
FeedbackDomain(transcript, transcript_lower, page) ==
    IF \/ page = "feedback"
       \/ Mentions(transcript_lower, "feedback")
       \/ Mentions(transcript_lower, "analyze")
       THEN FeedbackResult(
              Search([i \in 1..Len(transcript) |-> FeedbackAt(transcript, i)]),
              Search([i \in 1..Len(transcript) |-> SentimentAt(transcript, i)]))
       ELSE None

\* The poster branch (lines 600-610)
PosterDomain(transcript, transcript_lower, page) ==
    IF \/ page = "poster"
       \/ Mentions(transcript_lower, "poster")
       \/ Mentions(transcript_lower, "flyer")
       THEN PosterResult(
              Search([i \in 1..Len(transcript) |->
                  ForCalledAt(transcript, i, {"create", "make", "design"},
                              "poster", {"called", "titled"})]),
              Search([i \in 1..Len(transcript) |-> PosterTypeAt(transcript, i)]))
       ELSE None

\* The first of the results that is an instruction, None when none is
FirstResult(r1, r2, r3, r4) ==
    IF r1 # None THEN r1
    ELSE IF r2 # None THEN r2
    ELSE IF r3 # None THEN r3
    ELSE r4

\* _match_page_patterns(transcript, transcript_lower, page): the domains in
\* the order of the code, the first that is tried and matches decides
_match_page_patterns(transcript, transcript_lower, page) ==
    FirstResult(WebsiteDomain(transcript, transcript_lower, page),
                EmailDomain(transcript, transcript_lower, page),
                FeedbackDomain(transcript, transcript_lower, page),
                PosterDomain(transcript, transcript_lower, page))

(* ---------------- generic field-filling tier ---------------- *)

\* field_mappings of _normalize_field_name
field_mappings ==
    { <<K("name"), "businessName">>, <<K2("business", "name"), "businessName">>,
      <<K2("company", "name"), "businessName">>, <<K("title"), "posterTitle">>,
      <<K("subject"), "emailPurpose">>, <<K("description"), "businessDescription">>,
      <<K("message"), "feedbackText">>, <<K("feedback"), "feedbackText">>,
      <<K("email"), "customerEmail">>, <<K("type"), "websiteType">> }

\* field_name.replace(' ', ''): the items without the blanks, as one word
RECURSIVE RemoveBlanks(_)
RemoveBlanks(s) ==
    IF s = <<>> THEN ""
    ELSE IF Head(s) = SP THEN RemoveBlanks(Tail(s))
    ELSE Head(s) \o RemoveBlanks(Tail(s))

_normalize_field_name(field_name) ==
    LET name == Strip(LowerStr(field_name))
    IN  IF \E pair \in field_mappings : pair[1] = name
           THEN (CHOOSE pair \in field_mappings : pair[1] = name)[2]
           ELSE RemoveBlanks(name)

\* \s+(?:words)\s+(.+) at e: the start of the last group, 0 if no match
ValueAfter(s, e, words) ==
    IF At(s, NextWord(s, e)) \in words THEN RestAfterWs(s, NextWord(s, e) + 1) ELSE 0

\* (?:fill|enter|set)\s+(.+?)\s+(?:with|to|as)\s+(.+)
FillAt(s, i) ==
    LET Rest == {e \in Positions(s) : ValueAfter(s, e, {"with", "to", "as"}) # 0}
        c == IF At(s, i) \in {"fill", "enter", "set"}
                THEN CapAfterWs(s, i + 1, Rest) ELSE Absent
    IN  IF c = Absent THEN NoMatch
        ELSE Match2(Group(s, c[1], c[2]),
                    Group(s, ValueAfter(s, c[2], {"with", "to", "as"}), Len(s) + 1))

\* (?:my\s+)?(.+?)\s+is\s+(.+)
IsAt(s, i) ==
    LET Rest == {e \in Positions(s) : ValueAfter(s, e, {"is"}) # 0}
        withMy == IF At(s, i) = "my" THEN CapAfterWs(s, i + 1, Rest) ELSE Absent
        c == IF withMy # Absent THEN withMy
             ELSE IF LazyEnd(i, Rest) # 0 THEN <<i, LazyEnd(i, Rest)>>
             ELSE Absent
    IN  IF c = Absent THEN NoMatch
        ELSE Match2(Group(s, c[1], c[2]),
                    Group(s, ValueAfter(s, c[2], {"is"}), Len(s) + 1))

\* The fill_form instruction of the generic tier (lines 618-624)
FieldInstruction(m) ==
    IF m.matched
       THEN [action |-> "fill_form",
             fields |-> Put(EmptyDict, _normalize_field_name(m.g1), Strip(m.g2)),
             message |-> <<"Field filled from speech input.">>]
       ELSE None

\* _match_field_patterns(transcript, transcript_lower)
_match_field_patterns(transcript) ==
    FieldInstruction(
        FirstMatch(Search([i \in 1..Len(transcript) |-> FillAt(transcript, i)]),
                   Search([i \in 1..Len(transcript) |-> IsAt(transcript, i)])))

(* ---------------- pattern resolver ---------------- *)

\* The instruction returned when no tier matches (lines 533-541)
DefaultInstruction ==
    [action |-> "fill_form", fields |-> EmptyDict,
     message |-> <<"Could not extract specific information from speech.">>,
     confidence |-> 30]

\* The tiers with the page-specific tier tried before the navigation tier
TierResult_PageFirst(nav_result, page_result, field_result) ==
    IF page_result # None
       THEN [success |-> TRUE, instructions |-> page_result, confidence |-> 70]
    ELSE IF nav_result # None
       THEN [success |-> TRUE, instructions |-> nav_result, confidence |-> 80]
    ELSE IF field_result # None
       THEN [success |-> TRUE, instructions |-> field_result, confidence |-> 60]
    ELSE [success |-> TRUE, instructions |-> DefaultInstruction]

\* The tiers with the generic field tier tried before the page-specific tier
TierResult_FieldFirst(nav_result, page_result, field_result) ==
    IF nav_result # None
       THEN [success |-> TRUE, instructions |-> nav_result, confidence |-> 80]
    ELSE IF field_result # None
       THEN [success |-> TRUE, instructions |-> field_result, confidence |-> 60]
    ELSE IF page_result # None
       THEN [success |-> TRUE, instructions |-> page_result, confidence |-> 70]
    ELSE [success |-> TRUE, instructions |-> DefaultInstruction]

\* The tiers in order: the first that gives an instruction decides, with the
\* confidence of its tier (lines 507-541)
TierResult(nav_result, page_result, field_result) ==
    IF nav_result # None
       THEN [success |-> TRUE, instructions |-> nav_result, confidence |-> 80]
    ELSE IF page_result # None
       THEN [success |-> TRUE, instructions |-> page_result, confidence |-> 70]
    ELSE IF field_result # None
       THEN [success |-> TRUE, instructions |-> field_result, confidence |-> 60]
    ELSE [success |-> TRUE, instructions |-> DefaultInstruction]

\* A resolver that reads self.confidence_threshold: a tier whose confidence is
\* below the threshold the processor has at the time of the call is passed over
_process_with_patterns_Thresholded(transcript, page) ==
    TierResult(IF enhanced_speech_processor.confidence_threshold <= 80
                  THEN _match_navigation_patterns(LowerStr(transcript)) ELSE None,
               IF enhanced_speech_processor.confidence_threshold <= 70
                  THEN _match_page_patterns(transcript, LowerStr(transcript), page)
                  ELSE None,
               IF enhanced_speech_processor.confidence_threshold <= 60
                  THEN _match_field_patterns(transcript) ELSE None)

\* _process_with_patterns(transcript, page, context); context is not read
_process_with_patterns(transcript, page) ==
    TierResult(_match_navigation_patterns(LowerStr(transcript)),
               _match_page_patterns(transcript, LowerStr(transcript), page),
               _match_field_patterns(transcript))

(* ---------------- AI-backed resolver ---------------- *)

\* What self.model.generate_content and json.loads give for one request: the
\* call raises, response.text is empty, the text is no JSON, the JSON is no
\* object, or the JSON is the object instr.
NoReply == [kind |-> "none"]
FailedReplies ==
    { [kind |-> "exception"], [kind |-> "empty"], [kind |-> "malformed"],
      [kind |-> "not_object"] }
ObjectReply(instr) == [kind |-> "object", instr |-> instr]

\* Whether _process_with_gemini raises
GeminiRaises(reply, page) ==
    \/ reply.kind # "object"
    \/ ValidationRaises(reply.instr, page)

\* _process_with_gemini(transcript, page, context) when it does not raise
_process_with_gemini(reply, page) ==
    LET instructions == _validate_instructions(reply.instr, page)
    IN  [success |-> TRUE, instructions |-> instructions,
         confidence |-> Get(instructions, "confidence", 80),
         processed_by |-> "gemini"]

(* ---------------- orchestrator ---------------- *)

\* datetime.now().isoformat(): the clock is outside the model
Now == "now"

\* _error_response(message)
_error_response(message) ==
    [success |-> FALSE, error |-> message,
     instructions |-> [action |-> "error", message |-> message, confidence |-> 0],
     processed_at |-> Now]

\* The metadata with processed_by 'fallback' whether or not a model is set
WithMetadata_TwoValued(result, model, transcript) ==
    [k \in DOMAIN result \cup {"processed_by", "processed_at", "original_transcript"} |->
        CASE k = "processed_by" -> "fallback"
          [] k = "processed_at" -> Now
          [] k = "original_transcript" -> transcript
          [] OTHER -> result[k]]

\* The metadata added to the pattern resolver's result (lines 262-264)
WithMetadata(result, model, transcript) ==
    [k \in DOMAIN result \cup {"processed_by", "processed_at", "original_transcript"} |->
        CASE k = "processed_by" -> IF ~model THEN "fallback" ELSE "gemini_fallback"
          [] k = "processed_at" -> Now
          [] k = "original_transcript" -> transcript
          [] OTHER -> result[k]]

\* An orchestrator without the inner try: a failure of the AI-backed attempt
\* reaches the handler of line 268 and is returned as an error
ResolveCleaned_Surfacing(transcript, page, reply, model) ==
    IF transcript = <<>>
       THEN [result |-> _error_response("Empty or invalid transcript"), calls |-> <<>>]
    ELSE IF model /\ ~GeminiRaises(reply, page)
       THEN [result |-> _process_with_gemini(reply, page), calls |-> <<"gemini">>]
    ELSE IF model
       THEN [result |-> _error_response("Processing failed"), calls |-> <<"gemini">>]
    ELSE [result |-> WithMetadata(_process_with_patterns(transcript, page), model,
                                  transcript),
          calls |-> <<"patterns">>]

\* An orchestrator that runs the pattern resolver after the AI-backed one
\* whatever the AI-backed one returned, and answers from the patterns
ResolveCleaned_PatternsAlways(transcript, page, reply, model) ==
    IF transcript = <<>>
       THEN [result |-> _error_response("Empty or invalid transcript"), calls |-> <<>>]
    ELSE [result |-> WithMetadata(_process_with_patterns(transcript, page), model,
                                  transcript),
          calls |-> IF model THEN <<"gemini", "patterns">> ELSE <<"patterns">>]

\* An orchestrator that calls the AI backend a second time when the first
\* attempt failed (the second fails as the first did)
ResolveCleaned_Retrying(transcript, page, reply, model) ==
    IF transcript = <<>>
       THEN [result |-> _error_response("Empty or invalid transcript"), calls |-> <<>>]
    ELSE IF model /\ ~GeminiRaises(reply, page)
       THEN [result |-> _process_with_gemini(reply, page), calls |-> <<"gemini">>]
    ELSE [result |-> WithMetadata(_process_with_patterns(transcript, page), model,
                                  transcript),
          calls |-> IF model THEN <<"gemini", "gemini", "patterns">>
                    ELSE <<"patterns">>]

\* Lines 243-266, with the cleaned transcript: the dict returned and the
\* resolvers called
ResolveCleaned(transcript, page, reply, model) ==
    IF transcript = <<>>
       THEN [result |-> _error_response("Empty or invalid transcript"), calls |-> <<>>]
    ELSE IF model /\ ~GeminiRaises(reply, page)
       THEN [result |-> _process_with_gemini(reply, page), calls |-> <<"gemini">>]
    ELSE [result |-> WithMetadata(_process_with_patterns(transcript, page), model,
                                  transcript),
          calls |-> IF model THEN <<"gemini", "patterns">> ELSE <<"patterns">>]

\* process_speech_input(transcript, page, context) of a processor whose
\* self.model is set iff model
process_speech_input(transcript, page, reply, model) ==
    IF transcript.kind = "nonstr"
       THEN \* str.strip raises in _clean_transcript; caught at line 268
            [result |-> _error_response("Processing failed"), calls |-> <<>>]
       ELSE ResolveCleaned(_clean_transcript(transcript), page, reply, model)

(* ---------------- app.py: the basic fallback ---------------- *)

\* (?:for|called|named)\s+([^,.\n]+) at i: the group is greedy and stops
\* before a full stop
BusinessAt(s, i) ==
    LET starts == IF At(s, i) \in {"for", "called", "named"}
                     THEN {p \in CapStarts(s, i + 1) : s[p] # DOT} ELSE {}
        p == Max(starts)
        e == Min({x \in (p + 1)..(Len(s) + 1) : Term(s, x)})
    IN  IF starts = {} THEN NoMatch ELSE Match1(Group(s, p, e))

\* feedback[:\s]+(.+)
BasicFeedbackAt(s, i) ==
    LET p == IF At(s, i) = "feedback" THEN RestAfterColon(s, i + 1) ELSE 0
    IN  IF p = 0 THEN NoMatch ELSE Match1(Group(s, p, Len(s) + 1))

BasicNavigate(url, message) ==
    [success |-> TRUE,
     instructions |-> [action |-> "navigate", navigation |-> url,
                       message |-> <<message>>, confidence |-> 80]]

\* basic_speech_processing(transcript, page)
basic_speech_processing(transcript, page) ==
    LET tl == LowerStr(transcript)
        nav == \/ StrContains(tl, <<"go", SP, "to">>)
               \/ Mentions(tl, "open") \/ Mentions(tl, "show")
        b == Search([i \in 1..Len(transcript) |-> BusinessAt(transcript, i)])
        name == Strip(b.g1)
        f1 == IF b.matched
                 THEN [businessName |-> name, senderName |-> name, posterTitle |-> name]
                 ELSE EmptyDict
        f2 == IF Mentions(tl, "website") \/ page = "website"
                 THEN IF Mentions(tl, "restaurant")
                         THEN Put(f1, "websiteType", K("restaurant"))
                      ELSE IF Mentions(tl, "business")
                         THEN Put(f1, "websiteType", K("business"))
                      ELSE IF Mentions(tl, "portfolio")
                         THEN Put(f1, "websiteType", K("portfolio"))
                      ELSE f1
                 ELSE f1
        f3 == IF Mentions(tl, "email") \/ page = "email"
                 THEN IF Mentions(tl, "marketing")
                         THEN Put(f2, "emailType", K("marketing"))
                      ELSE IF Mentions(tl, "professional")
                         THEN Put(f2, "emailTone", K("professional"))
                      ELSE IF Mentions(tl, "friendly")
                         THEN Put(f2, "emailTone", K("friendly"))
                      ELSE f2
                 ELSE f2
        fb == Search([i \in 1..Len(transcript) |-> BasicFeedbackAt(transcript, i)])
    IN  IF nav /\ Mentions(tl, "website")
           THEN BasicNavigate("/tools/website", "Navigating to website builder...")
        ELSE IF nav /\ Mentions(tl, "email")
           THEN BasicNavigate("/tools/email", "Navigating to email composer...")
        ELSE IF nav /\ Mentions(tl, "feedback")
           THEN BasicNavigate("/tools/feedback", "Navigating to feedback analyzer...")
        ELSE IF nav /\ Mentions(tl, "poster")
           THEN BasicNavigate("/tools/poster", "Navigating to poster maker...")
        ELSE IF nav /\ Mentions(tl, "dashboard")
           THEN BasicNavigate("/dashboard", "Navigating to dashboard...")
        ELSE IF Mentions(tl, "analyze") /\ Mentions(tl, "feedback") /\ fb.matched
           THEN [success |-> TRUE,
                 instructions |->
                    [action |-> "fill_form",
                     fields |-> Put(f3, "feedbackText", Strip(fb.g1)),
                     tool_execution |-> [tool |-> "feedback", auto_submit |-> TRUE],
                     message |-> <<"Analyzing feedback from speech...">>,
                     confidence |-> 70]]
        ELSE IF DOMAIN f3 # {}
           THEN [success |-> TRUE,
                 instructions |->
                    [action |-> "fill_form", fields |-> f3,
                     message |-> <<"Filled ", Cardinality(DOMAIN f3), " field(s) from speech.">>,
                     confidence |-> 60]]
        ELSE [success |-> TRUE, instructions |-> DefaultInstruction]

(* ---------------- the inputs of the model ---------------- *)

\* The number of phrases a transcript is made of
MaxParts == 3

\* The transcripts made of at most n of the phrases, one blank between two
RECURSIVE Phrases(_, _)
Phrases(chunks, n) ==
    IF n = 0 THEN {<<>>}
    ELSE LET shorter == Phrases(chunks, n - 1)
         IN  shorter \cup
             {IF t = <<>> THEN c ELSE t \o <<SP>> \o c : t \in shorter, c \in chunks}

NavChunks ==
    { <<"go", SP, "to">>, <<"open", SP, "the">>, <<"email">>, <<"settings">>,
      <<"tool">>, <<"create", SP, "a", SP, "website", SP, "for", SP, "cafe">> }

PageChunks ==
    { <<"create", SP, "a", SP, "website", SP, "for">>, <<"cafe">>,
      <<"called", SP, "joe's">>, <<"analyze", SP, "feedback", COLON>>,
      <<"make", SP, "a", SP, "sale", SP, "poster">>,
      <<"draft", SP, "a", SP, "marketing", SP, "email", SP, "to", SP, "customers">> }

FieldChunks ==
    { <<"set", SP, "type", SP, "to">>, <<"spaceship">>,
      <<"my", SP, "business", SP, "name", SP, "is">>, <<"Joe">>,
      <<"fill", SP, "shop", SP, "name", SP, "with">> }

\* Raw speech: blanks of any number anywhere, and disfluencies
RawChunks == { <<SP>>, <<"um">>, <<"Um">>, <<"uh">>, <<"hello">> }

Transcripts ==
    Phrases(NavChunks, MaxParts) \cup Phrases(PageChunks, MaxParts)
        \cup Phrases(FieldChunks, MaxParts) \cup Phrases(RawChunks, MaxParts)

\* The transcripts used where the AI backend fails
SomeTranscripts ==
    Phrases(NavChunks, MaxParts - 1) \cup Phrases(PageChunks, MaxParts - 1)
        \cup Phrases(FieldChunks, MaxParts - 1) \cup Phrases(RawChunks, MaxParts - 1)

\* The transcripts used where the processor is missing and where the session
\* is not authenticated
FewTranscripts ==
    { <<>>, <<"um">>, <<"go", SP, "to", SP, "email">>,
      <<"set", SP, "type", SP, "to", SP, "spaceship">>,
      <<"analyze", SP, "feedback", COLON, SP, "great">>, <<"hello">>,
      <<"pizza", SP, "restaurant", SP, "for", SP, "Tony's">>,
      <<"i", SP, "want", SP, "a", SP, "modern", SP, "website", SP, "for", SP, "cafe">>,
      <<"analyze", SP, "feedback", COLON, SP, "food", SP, "is", SP, "great">>,
      <<"review", SP, "sentiment", COLON, SP, "great">> }

\* The transcripts used where the AI backend answers with an object
AnsweredTranscripts == { <<>>, <<"um">>, <<"go", SP, "to", SP, "email">> }

Pages == {"website", "email", "feedback", "poster", "sales", "dashboard", "unknown"}

\* The JSON objects the AI backend answers with
ReplyActions == {"fill_form", "navigate", "combination"}
ReplyFields ==
    { EmptyDict,
      [colorScheme |-> K("purple-ish")],
      [colorScheme |-> K("Modern"), businessName |-> K("Joe")],
      [colorScheme |-> K("eco-modern"), websiteType |-> <<"my", SP, "cafeteria">>],
      [websiteType |-> K("spaceship"), bogus |-> K("hello")],
      [websiteType |-> <<"cafe", SP, "portfolio">>],
      [feedbackText |-> K("great"), posterSize |-> K("a5")],
      [emailTone |-> JsonNumber, emailPurpose |-> JsonNumber] }
ReplyTools ==
    { [tool |-> "website"], [tool |-> "feedback", auto_submit |-> FALSE] }

\* A dict with the keys of keys, taken from full
Only(full, keys) == [k \in keys |-> full[k]]

\* Replies whose action the prompt does not offer, or offers without the rest
\* of the object: json.loads accepts every JSON object
OffPromptInstructions ==
    { [action |-> "execute_tool"],
      [action |-> "click_button"],
      [action |-> "error", confidence |-> 0] }

ReplyInstructions ==
    { Only([action |-> a, confidence |-> 95, fields |-> f, tool_execution |-> t], keys) :
        a \in ReplyActions, f \in ReplyFields, t \in ReplyTools,
        keys \in { {}, {"action", "fields"}, {"fields", "tool_execution"},
                   {"action", "confidence", "fields", "tool_execution"} } }
    \cup OffPromptInstructions

Values(transcripts) == {Str(t) : t \in transcripts} \cup {NoneValue, NonStr}

\* The requests a processor may get: <<transcript, page, reply>>; the reply is
\* the AI backend's and exists only where self.model is set
Requests(model) ==
    IF ~model
       THEN Values(Transcripts) \X Pages \X {NoReply}
       ELSE (Values(SomeTranscripts) \X {"website", "dashboard"} \X FailedReplies)
            \cup (Values(AnsweredTranscripts) \X Pages
                    \X {ObjectReply(i) : i \in ReplyInstructions})

\* The requests of a client without a session, and those a server without
\* the processor gets
FewRequests == Values(FewTranscripts) \X Pages \X {NoReply}

\* The cases handed to the processor directly: they are not stripped and
\* need not be strings
DirectRequests(model) ==
    IF ~model
       THEN (Values(Phrases(RawChunks, MaxParts)) \cup Values(FewTranscripts))
                \X Pages \X {NoReply}
       ELSE (Values(FewTranscripts) \X {"website", "dashboard"} \X FailedReplies)
            \cup (Values(AnsweredTranscripts) \X {"website", "poster"}
                    \X {ObjectReply(i) : i \in ReplyInstructions})

(* ---------------- the transitions ---------------- *)

vars == <<SPEECH_PROCESSOR_AVAILABLE, enhanced_speech_processor, pc, request,
          response, calls, earlier, handlers, constructions>>

NoProcessor == [model |-> FALSE, constructed |-> FALSE]

\* EnhancedSpeechProcessor(): self.model is set iff Gemini could be configured;
\* self.confidence_threshold is 0.7
EnhancedSpeechProcessor(model) ==
    [model |-> model, constructed |-> TRUE, confidence_threshold |-> 70]

\* No call of the pattern resolver is remembered
NoCall == [page |-> "none"]

NoRequest == [entry |-> "none"]
NoResponse == [status |-> 0]

\* The threads that call initialize_speech_system(): the module itself at
\* import (line 1621) and the request handlers of the threaded server
RequestHandlers == {"handler1", "handler2"}
Handlers == {"startup"} \cup RequestHandlers

\* A thread that is not inside initialize_speech_system()
NotCalled == [at |-> "out"]

Init ==
    /\ SPEECH_PROCESSOR_AVAILABLE \in BOOLEAN
    /\ enhanced_speech_processor = NoProcessor
    /\ pc = "boot"
    /\ request = NoRequest
    /\ response = NoResponse
    /\ calls = <<>>
    /\ earlier = NoCall
    /\ handlers = [h \in Handlers |-> NotCalled]
    /\ constructions = 0

\* initialize_speech_system(): the global after the call, when the
\* constructor configures Gemini iff model
initialize_speech_system(global, available, model) ==
    IF ~global.constructed /\ available THEN EnhancedSpeechProcessor(model) ELSE global

\* app.py line 1621: the call at startup
Startup ==
    /\ pc = "boot"
    /\ \E model \in BOOLEAN :
          enhanced_speech_processor' =
              initialize_speech_system(enhanced_speech_processor,
                                       SPEECH_PROCESSOR_AVAILABLE, model)
    /\ pc' = "idle"
    /\ UNCHANGED <<handlers, constructions, SPEECH_PROCESSOR_AVAILABLE, request, response, calls, earlier>>

\* A processor that adapted its threshold to the request it has just answered
Ok_Adapting(r, processor) ==
    [status |-> 200, body |-> r.result, calls |-> r.calls,
     processor |-> [processor EXCEPT !.confidence_threshold = 10]]

\* jsonify(result) of what the processor returned; processor is the global
\* after the request
Ok(r, processor) ==
    [status |-> 200, body |-> r.result, calls |-> r.calls, processor |-> processor]

\* An endpoint that validates the transcript before it looks at the session
api_process_speech_ValidatesFirst(authenticated, transcript, page, reply, processor, initialized) ==
    IF transcript.kind # "str"
       THEN [status |-> 500,
             body |-> [success |-> FALSE, error |-> "Speech processing failed"],
             calls |-> <<>>, processor |-> processor]
    ELSE IF Strip(transcript.s) = <<>>
       THEN [status |-> 400,
             body |-> [success |-> FALSE, error |-> "No transcript provided"],
             calls |-> <<>>, processor |-> processor]
    ELSE IF ~authenticated
       THEN [status |-> 401, body |-> [success |-> FALSE, error |-> "Unauthorized"],
             calls |-> <<>>, processor |-> processor]
    ELSE IF initialized.constructed
       THEN Ok(process_speech_input(Str(Strip(transcript.s)), page, reply,
                                    initialized.model),
               initialized)
    ELSE [status |-> 200, body |-> basic_speech_processing(Strip(transcript.s), page),
          calls |-> <<"basic">>, processor |-> initialized]

\* api_process_speech(): the response, the resolvers called and the global
\* processor after the request.  initialized is what initialize_speech_system()
\* of line 640 leaves in the global; the lines before it do not touch it.
api_process_speech(authenticated, transcript, page, reply, processor, initialized) ==
    IF ~authenticated
       THEN [status |-> 401, body |-> [success |-> FALSE, error |-> "Unauthorized"],
             calls |-> <<>>, processor |-> processor]
    ELSE IF transcript.kind # "str"
       THEN \* None.strip() raises; caught at line 655
            [status |-> 500,
             body |-> [success |-> FALSE, error |-> "Speech processing failed"],
             calls |-> <<>>, processor |-> processor]
    ELSE IF Strip(transcript.s) = <<>>
       THEN [status |-> 400,
             body |-> [success |-> FALSE, error |-> "No transcript provided"],
             calls |-> <<>>, processor |-> processor]
    ELSE IF initialized.constructed
       THEN Ok(process_speech_input(Str(Strip(transcript.s)), page, reply,
                                    initialized.model),
               initialized)
    ELSE [status |-> 200, body |-> basic_speech_processing(Strip(transcript.s), page),
          calls |-> <<"basic">>, processor |-> initialized]

\* The request and its answer, as the state records them
Answer(entry, authenticated, req, r) ==
    /\ request' = [entry |-> entry, authenticated |-> authenticated,
                   transcript |-> req[1], page |-> req[2], reply |-> req[3]]
    /\ response' = [status |-> r.status, body |-> r.body]
    /\ calls' = r.calls
    /\ enhanced_speech_processor' = r.processor

\* POST /api/process-speech
ApiProcessSpeech ==
    /\ pc = "idle"
    /\ \E authenticated \in BOOLEAN :
       \E req \in IF authenticated /\ enhanced_speech_processor.constructed
                     THEN Requests(enhanced_speech_processor.model)
                     ELSE FewRequests :
       \E model \in IF enhanced_speech_processor.constructed
                       THEN {enhanced_speech_processor.model}  \* no constructor runs
                       ELSE BOOLEAN :
          Answer("http", authenticated, req,
                 api_process_speech(authenticated, req[1], req[2], req[3],
                     enhanced_speech_processor,
                     initialize_speech_system(enhanced_speech_processor,
                         SPEECH_PROCESSOR_AVAILABLE, model)))
    /\ pc' = "done"
    /\ UNCHANGED <<handlers, constructions, SPEECH_PROCESSOR_AVAILABLE, earlier>>

\* processor.process_speech_input(transcript, page) called on the instance, as
\* test_processing and /api/speech-test do with each case they are given
TestProcessing ==
    /\ pc = "idle"
    /\ enhanced_speech_processor.constructed
    /\ \E req \in DirectRequests(enhanced_speech_processor.model) :
          Answer("call", TRUE, req,
                 Ok(process_speech_input(req[1], req[2], req[3],
                                         enhanced_speech_processor.model),
                    enhanced_speech_processor))
    /\ pc' = "done"
    /\ UNCHANGED <<handlers, constructions, SPEECH_PROCESSOR_AVAILABLE, earlier>>

\* The server goes on to the next request
NextRequest ==
    /\ pc = "done"
    /\ pc' = "idle"
    /\ request' = NoRequest
    /\ response' = NoResponse
    /\ calls' = <<>>
    /\ UNCHANGED <<handlers, constructions, SPEECH_PROCESSOR_AVAILABLE, enhanced_speech_processor, earlier>>

Next == Startup \/ ApiProcessSpeech \/ TestProcessing \/ NextRequest

Spec == Init /\ [][Next]_vars

(* ---------------- a processor called again and again ---------------- *)

\* The threshold a caller sets, in hundredths
Thresholds == {5, 75, 150}

\* set_confidence_threshold(threshold): the processor after the call
set_confidence_threshold(processor, threshold) ==
    [processor EXCEPT !.confidence_threshold = Max({10, Min({100, threshold})})]

\* processor.set_confidence_threshold(threshold) called on the instance
SetConfidenceThreshold ==
    /\ pc = "idle"
    /\ enhanced_speech_processor.constructed
    /\ \E threshold \in Thresholds :
          enhanced_speech_processor' =
              set_confidence_threshold(enhanced_speech_processor, threshold)
    /\ UNCHANGED <<handlers, constructions, SPEECH_PROCESSOR_AVAILABLE, pc, request, response, calls, earlier>>

\* The transcripts and pages of the repeated calls
RepeatTranscripts ==
    FewTranscripts \cup
        { <<"create", SP, "a", SP, "website", SP, "for", SP, "cafe">>,
          <<"um", SP, "uh">> }

RepeatPages == {"website", "feedback"}

RepeatRequests(model) ==
    IF ~model
       THEN Values(RepeatTranscripts) \X RepeatPages \X {NoReply}
       ELSE Values(RepeatTranscripts) \X RepeatPages
                \X {[kind |-> "exception"], [kind |-> "malformed"],
                    ObjectReply(EmptyDict)}

\* What _process_with_patterns returned, taken from the dict
\* process_speech_input made of it (lines 262-264 add three keys)
PatternOutput(result) ==
    [k \in DOMAIN result \ {"processed_by", "processed_at", "original_transcript"} |->
        result[k]]

\* The history after a call for page that went through resolvers and
\* returned result: a call of the pattern resolver may be remembered, and the
\* first that is remembered stays remembered
Remembered(old, result, resolvers, page) ==
    IF old = NoCall /\ resolvers # <<>> /\ resolvers[Len(resolvers)] = "patterns"
       THEN { NoCall,
              [transcript |-> result.original_transcript, page |-> page,
               output |-> PatternOutput(result)] }
       ELSE {old}

\* One case of test_processing: process_speech_input(transcript, page) called
\* on the instance, any number of times over the life of the instance
RepeatProcessing ==
    /\ pc = "idle"
    /\ enhanced_speech_processor.constructed
    /\ \E req \in RepeatRequests(enhanced_speech_processor.model) :
          Answer("call", TRUE, req,
                 Ok(process_speech_input(req[1], req[2], req[3],
                                         enhanced_speech_processor.model),
                    enhanced_speech_processor))
    /\ pc' = "done"
    /\ UNCHANGED <<handlers, constructions, SPEECH_PROCESSOR_AVAILABLE, earlier>>

\* The call has returned and the caller goes on to the next one
RepeatReturn ==
    /\ pc = "done"
    /\ pc' = "idle"
    /\ earlier' \in Remembered(earlier, response.body, calls, request.page)
    /\ request' = NoRequest
    /\ response' = NoResponse
    /\ calls' = <<>>
    /\ UNCHANGED <<handlers, constructions, SPEECH_PROCESSOR_AVAILABLE, enhanced_speech_processor>>

RepeatNext == Startup \/ RepeatProcessing \/ SetConfidenceThreshold \/ RepeatReturn

RepeatSpec == Init /\ [][RepeatNext]_vars

(* ---------------- what a state records ---------------- *)

\* A request has been answered
Answered == pc = "done"

\* The answer is what process_speech_input returned
FromProcessor ==
    /\ Answered
    /\ response.status = 200
    /\ enhanced_speech_processor.constructed

\* The answer is the pattern resolver's result
PatternResolved ==
    /\ FromProcessor
    /\ calls # <<>>
    /\ calls[Len(calls)] = "patterns"

\* The answer is the AI-backed resolver's result
AiResolved == FromProcessor /\ calls = <<"gemini">>

\* The transcript process_speech_input was given: the endpoint strips it
GivenTranscript ==
    IF request.entry = "http"
       THEN Str(Strip(request.transcript.s))
       ELSE request.transcript

\* A transcript of blanks and disfluency words only (or none at all)
OnlyFillers(v) ==
    \/ v.kind = "none"
    \/ /\ v.kind = "str"
       /\ \A i \in 1..Len(v.s) : v.s[i] = SP \/ Lower(v.s[i]) \in Disfluencies

\* value is one of the declared options of a select field
IsOption(field_config, value) ==
    \E n \in 1..Len(field_config.options) : value = K(field_config.options[n])

(* ---------------- C1 ---------------- *)

\* C1: for every page and every non-empty cleaned transcript, the result of
\* pattern-based resolution carries an instruction with an action, a message
\* and a confidence, the confidence within [0, 1] (0..100 hundredths).
C1_PatternInstructionHasShape ==
    PatternResolved =>
        /\ {"action", "message", "confidence"} \subseteq DOMAIN response.body.instructions
        /\ response.body.instructions.confidence \in 0..100

(* ---------------- C2 ---------------- *)

\* C2: every key of instructions.fields of a result of process_speech_input
\* for page P is a field id the page context of P declares, whichever
\* resolver or tier produced it and whatever the action.
C2_FieldKeysDeclared ==
    FromProcessor /\ "fields" \in DOMAIN response.body.instructions =>
        DOMAIN response.body.instructions.fields
            \subseteq DOMAIN ContextFields(request.page)

(* ---------------- C3 ---------------- *)

\* C3: every value a result of process_speech_input emits for a select-type
\* field of the page is one of the declared options of that field.
C3_SelectValuesAreOptions ==
    FromProcessor /\ "fields" \in DOMAIN response.body.instructions =>
        \A field_id \in DOMAIN response.body.instructions.fields
                            \cap DOMAIN ContextFields(request.page) :
            ContextFields(request.page)[field_id].type = "select" =>
                IsOption(ContextFields(request.page)[field_id],
                         response.body.instructions.fields[field_id])

(* ---------------- C4 ---------------- *)

\* C4: a transcript that is empty, missing, blank or made of disfluency words
\* only makes process_speech_input return the empty-transcript error without
\* calling a resolver, and makes the endpoint answer 400.
C4_EmptyTranscriptFailsFast ==
    /\ Answered
    /\ request.authenticated
    /\ OnlyFillers(request.transcript)
    /\ request.entry = "http" => request.transcript.kind = "str"
    =>
        /\ calls = <<>>
        /\ request.entry = "call" =>
              response.body = _error_response("Empty or invalid transcript")
        /\ request.entry = "http" => response.status = 400

(* ---------------- C5 ---------------- *)

\* The AI-backed attempt of the request fails: the model call raises, the
\* response text is empty, the text is no JSON object, or validation raises
AiAttemptFails ==
    \/ request.reply.kind \in {"exception", "empty", "malformed", "not_object"}
    \/ /\ request.reply.kind = "object"
       /\ ValidationRaises(request.reply.instr, request.page)

\* C5: when a model is configured and the AI-backed attempt fails in any way,
\* process_speech_input runs the pattern resolver after it and returns the
\* pattern resolver's result, with success true.
C5_AiFailureFallsBack ==
    /\ FromProcessor
    /\ enhanced_speech_processor.model
    /\ GivenTranscript.kind = "str"
    /\ _clean_transcript(GivenTranscript) # <<>>
    /\ AiAttemptFails
    => /\ calls = <<"gemini", "patterns">>
       /\ response.body.success = TRUE
       /\ "error" \notin DOMAIN response.body
       /\ \A k \in DOMAIN _process_with_patterns(_clean_transcript(GivenTranscript),
                                                 request.page) :
             response.body[k] =
                 _process_with_patterns(_clean_transcript(GivenTranscript),
                                        request.page)[k]

\* A model reply that is no JSON is answered from the patterns; so is one
\* whose validation raises
C5_Witness ==
    /\ FromProcessor
    /\ enhanced_speech_processor.model
    /\ request.reply.kind = "object"
    /\ ValidationRaises(request.reply.instr, request.page)
    /\ calls = <<"gemini", "patterns">>
    /\ response.body.success = TRUE
    /\ response.body.instructions.action = "navigate"

(* ---------------- C6 ---------------- *)

\* The transcript has a non-empty normalized form: a str that cleans to a
\* non-empty str, or a value that is no str (normalization leaves it as it is)
NormalizedNonEmpty(v) ==
    \/ v.kind = "nonstr"
    \/ v.kind = "str" /\ _clean_transcript(v) # <<>>

\* C6: for every transcript whose normalized form is non-empty the result of
\* process_speech_input has success true; an error raised on the way is turned
\* into the default instruction, never into an error result.
C6_OnlyEmptyTranscriptFails ==
    FromProcessor /\ NormalizedNonEmpty(GivenTranscript) =>
        /\ response.body.success = TRUE
        /\ response.body.instructions.action # "error"

(* ---------------- C7 ---------------- *)

\* A navigation phrase at i followed, after blanks, by a word that names the
\* tool or page name
NavPhraseAt(s, i, name) ==
    \E verb \in NavVerbs :
       /\ i + Len(verb) <= Len(s)
       /\ \A k \in 1..Len(verb) : Lower(s[i + k - 1]) = verb[k]
       /\ \E j \in (i + Len(verb) + 1)..Len(s) :
             /\ \A k \in (i + Len(verb))..(j - 1) : s[k] = SP
             /\ StartsWith(Lower(s[j]), name)

\* The least position of s that holds a navigation phrase followed by name
FirstNavPhrase(s, i, name) ==
    /\ NavPhraseAt(s, i, name)
    /\ \A h \in 1..(i - 1) : \A other \in DOMAIN url_mapping : ~NavPhraseAt(s, h, other)

\* C7: whenever the transcript holds a navigation phrase followed by a known
\* tool or page name, pattern resolution returns action navigate with the URL
\* of that name (of the first such phrase), on every page and whatever else
\* the transcript holds.
C7_NavigationPrecedence ==
    PatternResolved =>
        \A name \in DOMAIN url_mapping :
        \A i \in 1..Len(response.body.original_transcript) :
            FirstNavPhrase(response.body.original_transcript, i, name) =>
                /\ response.body.instructions.action = "navigate"
                /\ response.body.instructions.navigation = url_mapping[name]
                /\ response.body.confidence = 80

\* "go to email create a website for cafe" navigates to /tools/email though
\* the website pattern matches as well
C7_Witness ==
    /\ PatternResolved
    /\ request.page = "website"
    /\ NavPhraseAt(response.body.original_transcript, 1, "email")
    /\ StrContains(response.body.original_transcript,
                   <<"create", SP, "a", SP, "website", SP, "for">>)
    /\ response.body.instructions.action = "navigate"
    /\ response.body.instructions.navigation = "/tools/email"

(* ---------------- C8 ---------------- *)

\* The name the navigation tier captured, as the message of a navigate
\* instruction quotes it
CapturedName == Strip(LowerStr(response.body.instructions.message[2]))

\* C8: the navigation tier gives a navigate instruction only for a captured
\* name that is one of the seven names of the URL table; any other name is no
\* match.
C8_UnknownNameFallsThrough ==
    PatternResolved /\ response.body.instructions.action = "navigate" =>
        \E name \in DOMAIN url_mapping : CapturedName = K(name)

(* ---------------- C9 ---------------- *)

\* C9: a feedback-domain match of the pattern resolver has
\* tool_execution.auto_submit true; a website, email or poster match has the
\* auto_submit the page context of that domain declares, which is false.
C9_AutoSubmitByDomain ==
    PatternResolved /\ "tool_execution" \in DOMAIN response.body.instructions =>
        /\ response.body.instructions.tool_execution.tool
              \in {"website", "email", "feedback", "poster"}
        /\ response.body.instructions.tool_execution.auto_submit
              = (response.body.instructions.tool_execution.tool = "feedback")
        /\ response.body.instructions.tool_execution.auto_submit
              = page_auto_submit[response.body.instructions.tool_execution.tool]

\* A feedback match on a page that is not the feedback page
C9_Witness ==
    /\ PatternResolved
    /\ request.page = "poster"
    /\ "tool_execution" \in DOMAIN response.body.instructions
    /\ response.body.instructions.tool_execution.tool = "feedback"
    /\ response.body.instructions.tool_execution.auto_submit = TRUE

(* ---------------- C10 ---------------- *)

\* A str value a select field does not recognize: no option, no option in
\* another case, no trigger keyword of an option inside it
Unrecognized(field_config, value) ==
    /\ IsString(value)
    /\ \A n \in 1..Len(field_config.options) :
          LowerStr(value) # K(Lower(field_config.options[n]))
    /\ \A n \in 1..Len(field_config.keywords) :
          \A k \in 1..Len(field_config.keywords[n][2]) :
             ~StrContains(LowerStr(value), field_config.keywords[n][2][k])

\* The select fields of the page the AI reply gives an unrecognized value for
UnrecognizedFields ==
    IF "fields" \in DOMAIN request.reply.instr
       THEN {field_id \in DOMAIN request.reply.instr.fields
                            \cap DOMAIN ContextFields(request.page) :
               /\ ContextFields(request.page)[field_id].type = "select"
               /\ Unrecognized(ContextFields(request.page)[field_id],
                               request.reply.instr.fields[field_id])}
       ELSE {}

\* The emitted value of each such field is the first declared option
FirstOptionEmitted ==
    \A field_id \in UnrecognizedFields :
       /\ field_id \in DOMAIN response.body.instructions.fields
       /\ response.body.instructions.fields[field_id]
             = K(ContextFields(request.page)[field_id].options[1])

TierConfidence(transcript, page) ==
    IF _match_navigation_patterns(LowerStr(transcript)) # None THEN 80
    ELSE IF _match_page_patterns(transcript, LowerStr(transcript), page) # None THEN 70
    ELSE IF _match_field_patterns(transcript) # None THEN 60
    ELSE 30

\* C12: the instruction the pattern resolver returns carries a confidence,
\* and it is the confidence of the tier that matched: 0.8, 0.7, 0.6 or 0.3.
C12_InstructionCarriesTierConfidence ==
    PatternResolved =>
        /\ "confidence" \in DOMAIN response.body.instructions
        /\ response.body.instructions.confidence =
               TierConfidence(response.body.original_transcript, request.page)

(* ---------------- C13 ---------------- *)

\* The answer is a website instruction of the page-specific tier
WebsiteResolved ==
    /\ PatternResolved
    /\ "tool_execution" \in DOMAIN response.body.instructions
    /\ response.body.instructions.tool_execution.tool = "website"

\* C13: a website request whose business description contains a synonym of
\* 'restaurant' (restaurant, cafe, food, dining) gets websiteType
\* 'restaurant'; and "pizza restaurant for Tony's" on page website gets
\* websiteType 'restaurant' and businessName "Tony's".
C13_SynonymResolution ==
    /\ WebsiteResolved
          /\ AnyIn(LowerStr(response.body.instructions.fields.businessDescription),
                   {"restaurant", "cafe", "food", "dining"})
       => Get(response.body.instructions.fields, "websiteType", <<>>) = K("restaurant")
    /\ PatternResolved
          /\ request.page = "website"
          /\ response.body.original_transcript =
                 <<"pizza", SP, "restaurant", SP, "for", SP, "Tony's">>
       => /\ Get(response.body.instructions.fields, "websiteType", <<>>)
                 = K("restaurant")
          /\ Get(response.body.instructions.fields, "businessName", <<>>)
                 = K("Tony's")

(* ---------------- C14 ---------------- *)

\* process_speech_input was given a str whose cleaned form is not empty, so
\* that a resolver produced the answer
ResolverAnswered ==
    /\ FromProcessor
    /\ GivenTranscript.kind = "str"
    /\ _clean_transcript(GivenTranscript) # <<>>

\* C14 as stated: every result for a non-empty transcript carries
\* processed_by, 'gemini' when the AI-backed resolver produced it and
\* 'fallback' when the pattern resolver did (also after a failed AI attempt);
\* no other value occurs.
C14_ProcessedByGeminiOrFallback ==
    ResolverAnswered =>
        /\ "processed_by" \in DOMAIN response.body
        /\ response.body.processed_by \in {"gemini", "fallback"}
        /\ AiResolved => response.body.processed_by = "gemini"
        /\ PatternResolved => response.body.processed_by = "fallback"

\* C14 amended: every result a resolver produced carries processed_by:
\* 'gemini' when the AI-backed attempt succeeded, 'fallback' when no model is
\* configured, 'gemini_fallback' when a model is configured and its attempt
\* failed; no other value occurs.
C14_ProcessedByNamesThePath ==
    ResolverAnswered =>
        /\ "processed_by" \in DOMAIN response.body
        /\ response.body.processed_by =
              IF ~enhanced_speech_processor.model THEN "fallback"
              ELSE IF AiAttemptFails THEN "gemini_fallback"
              ELSE "gemini"

\* A configured model whose reply is no JSON: the patterns answer, and the
\* result says so
C14_Witness ==
    /\ ResolverAnswered
    /\ enhanced_speech_processor.model
    /\ request.reply.kind = "malformed"
    /\ PatternResolved
    /\ response.body.processed_by = "gemini_fallback"

(* ---------------- C15 ---------------- *)

\* The positions of the request's resolver calls that are calls of the AI
\* backend
GeminiCalls == {n \in DOMAIN calls : calls[n] = "gemini"}

\* C15: within one call of process_speech_input the AI backend is invoked at
\* most once, before anything else; when that attempt fails the next call is
\* the pattern resolver's and the backend is not called again.
C15_NoRetries ==
    Answered =>
        /\ GeminiCalls \subseteq {1}
        /\ FromProcessor /\ GeminiCalls # {} /\ AiAttemptFails =>
              /\ Len(calls) = 2
              /\ calls[2] = "patterns"

\* The model call raises: one attempt, then the patterns
C15_Witness ==
    /\ FromProcessor
    /\ enhanced_speech_processor.model
    /\ request.reply.kind = "exception"
    /\ GeminiCalls = {1}
    /\ calls[Len(calls)] = "patterns"

(* ---------------- C16 ---------------- *)

\* instr is the result of the first of the tiers navigation, page-specific,
\* generic field that matched, and the default instruction iff none matched
FirstTierDecides(instr, nav_result, page_result, field_result) ==
    /\ nav_result # None => instr = nav_result
    /\ nav_result = None /\ page_result # None => instr = page_result
    /\ nav_result = None /\ page_result = None /\ field_result # None =>
          instr = field_result
    /\ instr = DefaultInstruction <=>
          nav_result = None /\ page_result = None /\ field_result = None

\* C16: the pattern resolver tries navigation, page-specific, generic field,
\* default in this order and the first tier that matches decides: a
\* page-specific match is returned even when the generic field pattern matches
\* too, and the default instruction is returned only when no tier matched.
C16_FirstTierWins ==
    PatternResolved =>
        FirstTierDecides(
            response.body.instructions,
            _match_navigation_patterns(LowerStr(response.body.original_transcript)),
            _match_page_patterns(response.body.original_transcript,
                                 LowerStr(response.body.original_transcript),
                                 request.page),
            _match_field_patterns(response.body.original_transcript))

\* 'analyze feedback: food is great' matches the feedback pattern and the
\* generic 'X is Y' pattern; the feedback instruction is returned
C16_Witness ==
    /\ PatternResolved
    /\ _match_navigation_patterns(LowerStr(response.body.original_transcript)) = None
    /\ _match_field_patterns(response.body.original_transcript) # None
    /\ _match_page_patterns(response.body.original_transcript,
                            LowerStr(response.body.original_transcript),
                            request.page) # None
    /\ "tool_execution" \in DOMAIN response.body.instructions
    /\ response.body.confidence = 70

(* ---------------- C17 ---------------- *)

\* C17: the pattern resolver is run only when no AI backend is configured or
\* its attempt has failed: when the configured backend's attempt succeeds,
\* process_speech_input returns that result and the pattern resolver is not
\* invoked in the request.
C17_PatternsOnlyWithoutAiResult ==
    ResolverAnswered =>
        /\ (\E n \in DOMAIN calls : calls[n] = "patterns") <=>
              (~enhanced_speech_processor.model \/ AiAttemptFails)
        /\ enhanced_speech_processor.model /\ ~AiAttemptFails =>
              /\ calls = <<"gemini">>
              /\ response.body = _process_with_gemini(request.reply, request.page)

\* 'go to email' would match the navigation tier, but the model's reply is
\* good and is what comes back
C17_Witness ==
    /\ ResolverAnswered
    /\ enhanced_speech_processor.model
    /\ ~AiAttemptFails
    /\ calls = <<"gemini">>
    /\ _match_navigation_patterns(LowerStr(_clean_transcript(GivenTranscript))) # None
    /\ response.body.instructions.action = "fill_form"
    /\ response.body.processed_by = "gemini"

(* ---------------- C18 ---------------- *)

\* The domains of the page-specific tier in the order they are tried
DomainOrder == <<"website", "email", "feedback", "poster">>

\* The keywords the claim gives for the domains, and those the code tests
ClaimedKeywords ==
    [website |-> {"website", "site"}, email |-> {"email", "mail"},
     feedback |-> {"feedback", "review", "analyze"}, poster |-> {"poster", "flyer"}]

TestedKeywords ==
    [website |-> {"website"}, email |-> {"email"},
     feedback |-> {"feedback", "analyze"}, poster |-> {"poster", "flyer"}]

\* What the patterns of a domain give for the transcript when they are tried
DomainMatch(domain, transcript) ==
    CASE domain = "website" ->
            WebsiteDomain(transcript, LowerStr(transcript), "website")
      [] domain = "email" -> EmailDomain(transcript, LowerStr(transcript), "email")
      [] domain = "feedback" ->
            FeedbackDomain(transcript, LowerStr(transcript), "feedback")
      [] domain = "poster" -> PosterDomain(transcript, LowerStr(transcript), "poster")

\* The page is the domain or the transcript contains a keyword of the domain
Gate(domain, keywords, transcript, page) ==
    page = domain \/ AnyIn(LowerStr(transcript), keywords[domain])

\* What the patterns of the four domains give for the transcript, and whether
\* the gates of the four domains are open
DomainMatches(transcript) ==
    << DomainMatch("website", transcript), DomainMatch("email", transcript),
       DomainMatch("feedback", transcript), DomainMatch("poster", transcript) >>

Gates(keywords, transcript, page) ==
    << Gate("website", keywords, transcript, page),
       Gate("email", keywords, transcript, page),
       Gate("feedback", keywords, transcript, page),
       Gate("poster", keywords, transcript, page) >>

\* The n-th domain is the first whose gate is open and whose patterns match
Decides(n, gates, matches) ==
    /\ gates[n]
    /\ matches[n] # None
    /\ \A m \in 1..(n - 1) : ~(gates[m] /\ matches[m] # None)

\* The first domain whose gate is open and whose patterns match gives the
\* instruction, and a domain whose gate is closed does not give it
GatedBy(gates, matches, instr) ==
    \A n \in DOMAIN DomainOrder :
        /\ Decides(n, gates, matches) => instr = matches[n]
        /\ ~gates[n] =>
              ~ /\ "tool_execution" \in DOMAIN instr
                /\ instr.tool_execution.tool = DomainOrder[n]

\* The navigation tier did not match, so that the page-specific tier is run
PageTierRun ==
    /\ PatternResolved
    /\ _match_navigation_patterns(LowerStr(response.body.original_transcript)) = None

\* C18 as stated: a domain's patterns are tried exactly when the page equals
\* the domain or the transcript contains one of website/site, email/mail,
\* feedback/review/analyze, poster/flyer; otherwise they cannot produce the
\* result.
C18_GatedByClaimedKeywords ==
    PageTierRun =>
        GatedBy(Gates(ClaimedKeywords, response.body.original_transcript,
                      request.page),
                DomainMatches(response.body.original_transcript),
                response.body.instructions)

\* C18 amended: a domain's patterns are tried exactly when the page equals the
\* domain or the transcript contains 'website' (website), 'email' (email),
\* 'feedback' or 'analyze' (feedback), 'poster' or 'flyer' (poster), and no
\* earlier domain has matched; otherwise they cannot produce the result.
C18_GatedByTestedKeywords ==
    PageTierRun =>
        GatedBy(Gates(TestedKeywords, response.body.original_transcript,
                      request.page),
                DomainMatches(response.body.original_transcript),
                response.body.instructions)

\* 'review sentiment: great' on page website: the feedback patterns would
\* match, their gate is closed, and the answer is not theirs
C18_Witness ==
    /\ PageTierRun
    /\ request.page = "website"
    /\ DomainMatch("feedback", response.body.original_transcript) # None
    /\ ~Gate("feedback", TestedKeywords, response.body.original_transcript,
             request.page)
    /\ response.body.instructions = DefaultInstruction

(* ---------------- C19 ---------------- *)

\* The generic field tier decided the answer (only it reports 0.6)
FieldTierDecided ==
    /\ PatternResolved
    /\ "confidence" \in DOMAIN response.body
    /\ response.body.confidence = 60

\* The field ids of the synonym table
KnownFieldIds == {pair[2] : pair \in field_mappings}

\* The match of the generic field patterns in the transcript: X is g1, Y is g2
FieldMatch(transcript) ==
    FirstMatch(Search([i \in 1..Len(transcript) |-> FillAt(transcript, i)]),
               Search([i \in 1..Len(transcript) |-> IsAt(transcript, i)]))

\* C19: a generic field-fill match emits a fields map with exactly one entry;
\* its key is a known field id, the one the synonym table gives for X, and its
\* value is Y.
C19_FieldFillKnownKey ==
    FieldTierDecided =>
        /\ Cardinality(DOMAIN response.body.instructions.fields) = 1
        /\ \A key \in DOMAIN response.body.instructions.fields :
              /\ key \in KnownFieldIds
              /\ key = _normalize_field_name(
                           FieldMatch(response.body.original_transcript).g1)
              /\ response.body.instructions.fields[key] =
                     Strip(FieldMatch(response.body.original_transcript).g2)

(* ---------------- C20 ---------------- *)

\* C20: the instruction of an AI reply comes back with the reply's action, or
\* 'fill_form' when the reply has none, and with the reply's confidence, or
\* 0.7 when the reply has none; the confidence reported beside the instruction
\* is the instruction's.
C20_ValidationDefaults ==
    AiResolved =>
        /\ response.body.instructions.action =
               Get(request.reply.instr, "action", "fill_form")
        /\ response.body.instructions.confidence =
               Get(request.reply.instr, "confidence", 70)
        /\ response.body.confidence = response.body.instructions.confidence

\* A reply with neither action nor confidence is returned as a fill_form
\* instruction of confidence 0.7
C20_Witness ==
    /\ AiResolved
    /\ DOMAIN request.reply.instr \cap {"action", "confidence"} = {}
    /\ "fields" \in DOMAIN request.reply.instr
    /\ response.body.instructions.action = "fill_form"
    /\ response.body.instructions.confidence = 70
    /\ response.body.confidence = 70

(* ---------------- C21 ---------------- *)

\* The select fields of the page for which the AI reply gives a string that
\* is not one of the options as it stands: closest-match resolution runs
ResolvedFields ==
    IF "fields" \in DOMAIN request.reply.instr
       THEN {field_id \in DOMAIN request.reply.instr.fields
                            \cap DOMAIN ContextFields(request.page) :
               /\ ContextFields(request.page)[field_id].type = "select"
               /\ IsString(request.reply.instr.fields[field_id])
               /\ ~IsOption(ContextFields(request.page)[field_id],
                            request.reply.instr.fields[field_id])}
       ELSE {}

\* The options equal to the value ignoring case, by position
EqualIgnoringCase(field_config, value) ==
    {n \in 1..Len(field_config.options) :
        K(Lower(field_config.options[n])) = LowerStr(value)}

\* The entries of the keywords dict, by position, that belong to an option and
\* have a trigger word occurring in the value
TriggeredEntries(field_config, value) ==
    {m \in 1..Len(field_config.keywords) :
        /\ InSeq(field_config.keywords[m][1], field_config.options)
        /\ \E k \in 1..Len(field_config.keywords[m][2]) :
              StrContains(LowerStr(value), field_config.keywords[m][2][k])}

\* The options, by position, that have a trigger word occurring in the value
TriggeredOptions(field_config, value) ==
    {n \in 1..Len(field_config.options) :
        \E m \in TriggeredEntries(field_config, value) :
            field_config.keywords[m][1] = field_config.options[n]}

\* Steps (a), (b), (c) with step (b) in the declared option order
ClosestInDeclaredOrder(field_config, value) ==
    IF EqualIgnoringCase(field_config, value) # {}
       THEN K(field_config.options[Min(EqualIgnoringCase(field_config, value))])
    ELSE IF TriggeredOptions(field_config, value) # {}
       THEN K(field_config.options[Min(TriggeredOptions(field_config, value))])
    ELSE K(field_config.options[1])

\* Steps (a), (b), (c) with step (b) in the order of the keywords dict
ClosestInKeywordOrder(field_config, value) ==
    IF EqualIgnoringCase(field_config, value) # {}
       THEN K(field_config.options[Min(EqualIgnoringCase(field_config, value))])
    ELSE IF TriggeredEntries(field_config, value) # {}
       THEN K(field_config.keywords[Min(TriggeredEntries(field_config, value))][1])
    ELSE K(field_config.options[1])

\* Validation ran closest-match resolution on the fields of the AI reply
ClosestMatchRan ==
    /\ AiResolved
    /\ Get(request.reply.instr, "action", "fill_form") = "fill_form"

\* C21 as stated: closest-match resolution returns (a) the option equal to the
\* value ignoring case, else (b) the first option in the declared option order
\* with a trigger word occurring in the value, else (c) the first declared
\* option; the result is one of the options.
C21_ClosestInDeclaredOrder ==
    ClosestMatchRan =>
        \A field_id \in ResolvedFields :
           /\ IsOption(ContextFields(request.page)[field_id],
                       response.body.instructions.fields[field_id])
           /\ response.body.instructions.fields[field_id] =
                 ClosestInDeclaredOrder(ContextFields(request.page)[field_id],
                                        request.reply.instr.fields[field_id])

\* C21 amended: as stated, but step (b) goes through the keyword table in the
\* table's own order: the option of the first entry of the table with a
\* trigger word occurring in the value is returned.
C21_ClosestInKeywordOrder ==
    ClosestMatchRan =>
        \A field_id \in ResolvedFields :
           /\ IsOption(ContextFields(request.page)[field_id],
                       response.body.instructions.fields[field_id])
           /\ response.body.instructions.fields[field_id] =
                 ClosestInKeywordOrder(ContextFields(request.page)[field_id],
                                       request.reply.instr.fields[field_id])

\* websiteType 'cafe portfolio': 'portfolio' is declared before 'restaurant',
\* the keyword table has 'restaurant' first, and 'restaurant' is returned
C21_Witness ==
    /\ ClosestMatchRan
    /\ request.page = "website"
    /\ "websiteType" \in ResolvedFields
    /\ Cardinality(TriggeredOptions(ContextFields("website").websiteType,
                                    request.reply.instr.fields.websiteType)) = 2
    /\ response.body.instructions.fields.websiteType = K("restaurant")

(* ---------------- C22 ---------------- *)

\* C22: validation fills a tool_execution block that has no auto_submit flag
\* with the page's declared default (true for feedback, false for the other
\* pages); a flag that is present stays as it is, and an instruction without
\* a tool_execution block gets none.
C22_AutoSubmitDefault ==
    AiResolved =>
        IF "tool_execution" \notin DOMAIN request.reply.instr
           THEN "tool_execution" \notin DOMAIN response.body.instructions
        ELSE IF "auto_submit" \in DOMAIN request.reply.instr.tool_execution
           THEN response.body.instructions.tool_execution =
                    request.reply.instr.tool_execution
        ELSE /\ response.body.instructions.tool_execution.auto_submit =
                    (request.page = "feedback")
             /\ response.body.instructions.tool_execution.tool =
                    request.reply.instr.tool_execution.tool

\* A block without the flag on the feedback page comes back with auto_submit
\* true
C22_Witness ==
    /\ AiResolved
    /\ request.page = "feedback"
    /\ "tool_execution" \in DOMAIN request.reply.instr
    /\ "auto_submit" \notin DOMAIN request.reply.instr.tool_execution
    /\ response.body.instructions.tool_execution.auto_submit = TRUE

(* ---------------- C23 ---------------- *)

\* The AI reply is a fill_form instruction (by its action or by default) with
\* a fields map, for a page without a field schema
FillFormOnPageWithoutSchema ==
    /\ ResolverAnswered
    /\ enhanced_speech_processor.model
    /\ request.reply.kind = "object"
    /\ request.page \notin DOMAIN page_fields
    /\ Get(request.reply.instr, "action", "fill_form") = "fill_form"
    /\ "fields" \in DOMAIN request.reply.instr

\* C23: for a page without a PageContext entry, or with an entry without a
\* field schema (sales, dashboard), validation of a fill_form instruction does
\* not fail and returns the instruction with an empty fields map.
C23_UnknownPageEmptiesFields ==
    FillFormOnPageWithoutSchema =>
        /\ calls = <<"gemini">>
        /\ response.body.success = TRUE
        /\ response.body.instructions.action = "fill_form"
        /\ response.body.instructions.fields = EmptyDict

\* A reply with two fields for the page 'unknown' comes back without them
C23_Witness ==
    /\ FillFormOnPageWithoutSchema
    /\ request.page = "unknown"
    /\ Cardinality(DOMAIN request.reply.instr.fields) = 2
    /\ response.body.instructions.fields = EmptyDict
    /\ response.body.processed_by = "gemini"

(* ---------------- C24 ---------------- *)

\* sub is s with some of its items left out, the others in their order
RECURSIVE IsSubsequence(_, _)
IsSubsequence(sub, s) ==
    IF sub = <<>> THEN TRUE
    ELSE IF s = <<>> THEN FALSE
    ELSE IF Head(sub) = Head(s) THEN IsSubsequence(Tail(sub), Tail(s))
    ELSE IsSubsequence(sub, Tail(s))

\* s has no two blanks in a row, no blank at either end and no disfluency word
Normalized(s) ==
    /\ \A i \in 1..(Len(s) - 1) : ~(s[i] = SP /\ s[i + 1] = SP)
    /\ s # <<>> => s[1] # SP /\ s[Len(s)] # SP
    /\ \A i \in 1..Len(s) : Lower(s[i]) \notin Disfluencies

\* C24: the transcript the normalizer returns has no run of two or more
\* blanks, no blank at either end and no whole word um, uh, er or ah in any
\* letter case; what is left keeps its case and order.
C24_NormalizedIsClean ==
    PatternResolved =>
        /\ Normalized(response.body.original_transcript)
        /\ IsSubsequence(response.body.original_transcript, GivenTranscript.s)

(* ---------------- C27 ---------------- *)

\* C27: the normalizer is idempotent: cleaning the cleaned transcript again
\* returns it unchanged, also where a disfluency word sits between two words
\* or at either end.
C27_CleanIsIdempotent ==
    PatternResolved =>
        _clean_transcript(Str(response.body.original_transcript)) =
            response.body.original_transcript

(* ---------------- C25 ---------------- *)

\* A call of process_speech_input is answered in this step
ProcessCall ==
    pc = "idle" /\ pc' = "done"

InstructionActions == {"fill_form", "navigate", "execute_tool", "combination", "error"}

\* C26: the action of every instruction process_speech_input returns, from
\* the AI backend as well as from the pattern resolver, is one of fill_form,
\* navigate, execute_tool, combination, error.
C26_ActionIsKnown ==
    FromProcessor => response.body.instructions.action \in InstructionActions

(* ---------------- C28 ---------------- *)

\* C28: a result of process_speech_input has success false exactly when the
\* action of its instructions is error, and then the confidence is 0.0; a
\* result with success true carries another action, on both paths.
C28_FailureIffErrorAction ==
    FromProcessor =>
        /\ ~response.body.success <=> response.body.instructions.action = "error"
        /\ ~response.body.success => response.body.instructions.confidence = 0

(* ---------------- initialize_speech_system() under threads ---------------- *)

\* No more instances than this are constructed in one run
MaxConstructions == 3

\* The n-th instance EnhancedSpeechProcessor() returned: a Python object is
\* told from another by its identity
Instance(model, n) == [id |-> n] @@ EnhancedSpeechProcessor(model)

\* The threads inside initialize_speech_system()
Calling == { h \in Handlers : handlers[h].at \in {"check", "construct", "return"} }

\* A thread calls initialize_speech_system(): the module at import, a request
\* handler once the import is over
InitCall(h) ==
    /\ handlers[h].at = "out"
    /\ h \in RequestHandlers => handlers["startup"].at = "returned"
    /\ constructions + Cardinality(Calling) < MaxConstructions
    /\ handlers' = [handlers EXCEPT ![h] = [at |-> "check"]]
    /\ UNCHANGED <<constructions, SPEECH_PROCESSOR_AVAILABLE, enhanced_speech_processor,
                   pc, request, response, calls, earlier>>

\* Line 603: the test of the global
InitCheck(h) ==
    /\ handlers[h].at = "check"
    /\ handlers' = [handlers EXCEPT ![h] =
           [at |-> IF ~enhanced_speech_processor.constructed /\ SPEECH_PROCESSOR_AVAILABLE
                      THEN "construct" ELSE "return"]]
    /\ UNCHANGED <<constructions, SPEECH_PROCESSOR_AVAILABLE, enhanced_speech_processor,
                   pc, request, response, calls, earlier>>

\* Lines 604-609: the constructor returns an instance, which is stored in
\* the global, or raises, and None is stored
InitConstruct(h) ==
    /\ handlers[h].at = "construct"
    /\ \/ \E model \in BOOLEAN :
             /\ enhanced_speech_processor' = Instance(model, constructions + 1)
             /\ constructions' = constructions + 1
       \/ /\ enhanced_speech_processor' = NoProcessor
          /\ UNCHANGED constructions
    /\ handlers' = [handlers EXCEPT ![h] = [at |-> "return"]]
    /\ UNCHANGED <<SPEECH_PROCESSOR_AVAILABLE, pc, request, response, calls, earlier>>

\* Line 610: the global is read and returned
InitReturn(h) ==
    /\ handlers[h].at = "return"
    /\ handlers' = [handlers EXCEPT ![h] =
           [at |-> "returned", got |-> enhanced_speech_processor]]
    /\ UNCHANGED <<constructions, SPEECH_PROCESSOR_AVAILABLE, enhanced_speech_processor,
                   pc, request, response, calls, earlier>>

\* The thread of a request handler serves its next request
InitAgain(h) ==
    /\ h \in RequestHandlers
    /\ handlers[h].at = "returned"
    /\ handlers' = [handlers EXCEPT ![h] = NotCalled]
    /\ UNCHANGED <<constructions, SPEECH_PROCESSOR_AVAILABLE, enhanced_speech_processor,
                   pc, request, response, calls, earlier>>

ThreadedNext ==
    \E h \in Handlers :
        InitCall(h) \/ InitCheck(h) \/ InitConstruct(h) \/ InitReturn(h) \/ InitAgain(h)

ThreadedSpec == Init /\ [][ThreadedNext]_vars

(* ---------------- C29 ---------------- *)

\* The calls that have returned an instance
GotInstance == { h \in Handlers : handlers[h].at = "returned" /\ handlers[h].got.constructed }

ToEndpoint == Answered /\ request.entry = "http"

\* The request carries a transcript that is not empty once stripped
CarriesTranscript ==
    request.transcript.kind = "str" /\ Strip(request.transcript.s) # <<>>

\* C30: POST /api/process-speech without a session is answered 401 with
\* success false and reaches neither the validation of the transcript nor
\* the processor nor the basic fallback; the processor (or the fallback)
\* answers only requests with a session and a transcript that is not empty.
C30_UnauthorizedStopsFirst ==
    ToEndpoint =>
        /\ ~request.authenticated =>
              /\ response.status = 401
              /\ response.body = [success |-> FALSE, error |-> "Unauthorized"]
              /\ calls = <<>>
        /\ response.status = 200 \/ calls # <<>> =>
              request.authenticated /\ CarriesTranscript

\* A request without a session that only the session test stops, and one
\* without a session whose transcript would not pass the validation
C30_Witness ==
    /\ ToEndpoint
    /\ ~request.authenticated
    /\ enhanced_speech_processor.constructed
    /\ response.status = 401
    /\ ~CarriesTranscript

====
